---- MODULE Spec2Model ----
(***************************************************************************)
(* Reliability engine of claude-go-network: the lock-guarded               *)
(* ReliabilityLayer (reliability.go) and the lock-free                     *)
(* LockFreeReliabilityLayer (lockfree_reliability.go).                     *)
(*                                                                         *)
(* uint32 sequence arithmetic is kept modular; the 2^32 modulus is scaled  *)
(* down to SeqMod.  Time is counted in ticks of 100 ms, so the engine's    *)
(* 100 ms / 1 s / 5 s constants become 1 / 10 / 50.                        *)
(***************************************************************************)
EXTENDS Integers, Sequences, FiniteSets, TLC

\* ------------------------------------------------------------------ bounds
\* Modulus standing for 2^32 (uint32 wrap of SeqNum, AckNum, nextSeqNum).
SeqMod == 6
\* Largest sequence number carried by an inbound packet in the receive path.
MaxSeq == 3
\* Largest value handed to SetMaxBufferSize.
MaxBufCfg == 2
\* Outbound DATA packets carry a SeqNum in 0..MaxSendSeq or the last uint32.
MaxSendSeq == 1
\* DATA packets handed to SendPacket in one run of the flow-control and
\* timeout scenarios, and of the acknowledgment scenarios.
MaxSends == 3
MaxAckSends == 2
\* The clock stops after MaxTime ticks.
MaxTime == 2
\* Calls of GetNextSeqNum in one run of the acknowledgment scenarios.
MaxIssued == 2
\* Largest value handed to SetWindowSize / SetRetransmissionTimeout.
MaxWindowCfg == 3
MaxTimeoutCfg == 1
\* Lock-free engine: the clock stops after MaxLFTime ticks, at most MaxEntries
\* DATA packets are tracked in one run, outbound and inbound packets carry a
\* SeqNum in 0..MaxLFSeq, and at most MaxLFRecv DATA packets are received.
MaxLFTime == 2
MaxEntries == 2
MaxLFSeq == 1
MaxLFRecv == 3
MaxBothSends == 2
MaxBothTime == 1
MaxSeqCalls == 7
MaxLFStatRecv == 2
MaxLFStatTime == 1
MaxSrvEntries == 1
LongWait == 100
\* Sizes handed to NewLockFreeHashTable.
MaxTableSize == 4
\* Payloads handed to NewPacket have at most MaxPayloadLen bytes.
MaxPayloadLen == 5
MaxQueueItems == 2
MaxAckEntries == 1

\* ------------------------------------------------------- program constants
InitNextExpectedSeq == 1
InitMaxBufferSize == 1000
InitNextSeqNum == 1
InitWindowSize == 32
InitCongestionWindow == 1
InitSsthresh == 32
\* time.Duration values in ticks of 100 ms
InitRetransmissionTimeout == 10
InitAverageRTT == 1
MinTimeout == 1
MaxTimeout == 50
MaxRttSamples == 10
\* NewLockFreeReliabilityLayer
LFInitNextSeqNum == 1
LFWindowSize == 32
LFInitCongWindow == 1
LFInitRttEstimate == 1
LFInitTimeoutBase == 10
LFMinTimeout == 1
LFMaxTimeout == 50
\* NewLockFreeHashTable(16384), scaled down; a power of two.
TableSize == 2
\* Packet types
DATA_PACKET == 1
ACK_PACKET == 2
SYN_PACKET == 3
FIN_PACKET == 4
RST_PACKET == 5
\* Modulus standing for 2^64 (the uint64 size, mask and keys of the hash table).
Uint64Mod == 8
\* Protocol constants; MAX_PAYLOAD_SIZE (1400) is scaled down.
PROTOCOL_VERSION == 1
PACKET_HEADER_SIZE == 16
MAX_PAYLOAD_SIZE == 4
PacketTypes == {DATA_PACKET, ACK_PACKET, SYN_PACKET, FIN_PACKET, RST_PACKET}
\* Types of the packets handed to SendPacket: one tracked, one not.
SentTypes == {DATA_PACKET, ACK_PACKET}

\* Packets of the receive path are identified by their SeqNum.
RecvSeqs == 0..MaxSeq
\* Concurrent callers of ReceivePacket.
Receivers == {"r1", "r2"}

VARIABLES
  \* ---- ReliabilityLayer, receive side
  receivedSeqs,      \* set of SeqNum with receivedSeqs[seq] = true
  orderingBuffer,    \* set of SeqNum that are keys of the orderingBuffer map
  nextExpectedSeq,
  maxBufferSize,
  rpc,               \* per caller: position inside ReceivePacket
  rpkt,              \* per caller: SeqNum of the packet being received
  rsize,             \* per caller: the local bufferSize
  rret,              \* per caller: last return value of ReceivePacket
  delivered,         \* concatenation of every list GetOrderedPackets returned
  \* ---- ReliabilityLayer, send side
  nextSeqNum,
  unackedPackets,    \* SeqNum -> UnackedPacket (SentTime, RetryCount) or NoEntry
  windowSize,
  congestionWindow,
  ssthresh,
  rttSamples,
  averageRTT,
  retransmissionTimeout,
  cspc,              \* position of the caller inside CanSendPacket
  csCount,           \* its local unackedCount
  \* ---- environment and observation
  now,               \* time.Now()
  dataSends,         \* DATA packets handed to SendPacket so far
  issued,            \* every value GetNextSeqNum has returned
  seqLog,            \* the values GetNextSeqNum has returned, in call order
  lfNextSeqNum,      \* nextSeqNum of the lock-free engine (uint64)
  lfSeqLog,          \* the values its GetNextSeqNum has returned, in call order
  \* ---- UltraFastHTTPServer and its EpollEventLoop
  sRunning,          \* s.running (int32, atomic)
  elRunning,         \* eventLoop.running (plain bool)
  startPc,           \* position of the goroutine inside Start and eventLoop.Run
  relPc,             \* position of the reliabilityWorker goroutine
  statsPc,           \* position of the statsWorker goroutine
  stopPc,            \* position of the caller of Stop
  \* ---- packets on the wire
  wire,              \* the bytes handed to DeserializePacket
  orig,              \* the packet Serialize was called on, and what was done to its bytes
  parsed,            \* the packet DeserializePacket returned, or NoPacket
  perr,              \* the error DeserializePacket returned, "none" before the call
  \* ---- a LockFreeHashTable of any size
  ht,                \* the table: how far it got, size, mask, buckets, last result
  \* ---- concurrent callers of the lock-free HandleAck
  ackers,            \* per caller: position, ack number, entry removed, RTT sample, values loaded, result
  \* ---- senders that ask CanSendPacket before SendPacket
  senders,           \* per sender: position and the count CanSendPacket has read
  updaters,          \* per caller of updateCongestionWindow: position, argument, loaded window
  mu,                \* per mutex of the ReliabilityLayer: the writer that has it, the readers inside
  lockers,           \* per goroutine: the call path it runs, its position, the mutexes it holds
  qhead,             \* LockFreeQueue.head, a node
  qtail,             \* LockFreeQueue.tail, a node
  qnodes,            \* the QueueNodes allocated so far: next and data of each
  enqs,              \* per goroutine in Enqueue: position and locals
  deqs,              \* per goroutine in Dequeue: position and locals
  dequeued,          \* the items Dequeue returned, in the order of the head swaps
  ret,               \* the last completed call and what it returned
  \* ---- LockFreeReliabilityLayer
  unackedTable,      \* bucket -> identity of the UnackedEntry it points to, or Nil
  heap,              \* identity -> the UnackedEntry (SeqNum, SendTime, RetryCount)
  congWindow,
  rttEstimate,
  timeoutBase,
  packetsSent,
  packetsRecv,
  packetsLost,
  packetsRetr,
  recvQueue,         \* SeqNum of the packets in the receive queue, oldest first
  lfDelivered,       \* concatenation of every list GetOrderedPackets returned
  scanPc,            \* position of the reliability worker in GetTimedOutPackets
  scanNow,           \* its local now
  scanTimeout,       \* its local timeout
  scanIdx,           \* the bucket index i of ForEach
  scanValue,         \* the pointer ForEach loaded from bucket i
  timedOut,          \* its local result list (SeqNum of the packets, in report order)
  ackPc,             \* position of the caller inside HandleAck
  ackEntry,          \* the entry its Remove returned
  ackTimeout,        \* newTimeout of updateRTTAtomic
  lastReport         \* per entry: scan time of its latest report, or -1

recvVars == <<receivedSeqs, orderingBuffer, nextExpectedSeq, maxBufferSize,
              rpc, rpkt, rsize, rret, delivered>>

sendVars == <<nextSeqNum, unackedPackets, windowSize, congestionWindow,
              ssthresh, rttSamples, averageRTT, retransmissionTimeout,
              cspc, csCount>>

seqVars == <<seqLog, lfNextSeqNum, lfSeqLog>>
srvVars == <<sRunning, elRunning, startPc, relPc, statsPc, stopPc>>
pktVars == <<wire, orig, parsed, perr>>
tblVars == <<ht>>
lfAckVars == <<ackers>>
flowVars == <<senders>>
winVars == <<updaters>>
lockVars == <<mu, lockers>>
queueVars == <<qhead, qtail, qnodes, enqs, deqs, dequeued>>
envVars == <<now, dataSends, issued, seqVars, srvVars, pktVars, tblVars, lfAckVars, flowVars, winVars, lockVars, queueVars, ret>>

scanVars == <<scanPc, scanNow, scanTimeout, scanIdx, scanValue, timedOut>>
ackVars == <<ackPc, ackEntry, ackTimeout>>
lfRecvVars == <<recvQueue, lfDelivered, packetsRecv>>
lfTrackVars == <<unackedTable, heap, congWindow, rttEstimate, timeoutBase,
                 packetsSent, packetsLost, packetsRetr, scanVars, ackVars,
                 lastReport>>
lfVars == <<lfTrackVars, lfRecvVars>>

vars == <<receivedSeqs, orderingBuffer, nextExpectedSeq, maxBufferSize,
          rpc, rpkt, rsize, rret, delivered,
          nextSeqNum, unackedPackets, windowSize, congestionWindow,
          ssthresh, rttSamples, averageRTT, retransmissionTimeout,
          cspc, csCount, now, dataSends, issued, seqLog, lfNextSeqNum,
          lfSeqLog, sRunning, elRunning, startPc, relPc, statsPc, stopPc, wire, orig, parsed, perr, ht, ackers, senders, updaters, mu, lockers, qhead, qtail, qnodes, enqs, deqs, dequeued, ret,
          unackedTable, heap, congWindow, rttEstimate, timeoutBase,
          packetsSent, packetsRecv, packetsLost, packetsRetr, recvQueue,
          lfDelivered, scanPc, scanNow, scanTimeout, scanIdx, scanValue,
          timedOut, ackPc, ackEntry, ackTimeout, lastReport>>

\* SeqNum values of outbound DATA packets; the last one is the wrap point.
SendSeqs == (0..MaxSendSeq) \cup {SeqMod - 1}
NoEntry == [sent |-> -1, retry |-> -1]

\* uint32 increment.
SuccStuck(n) == n
Succ32(n) == (n + 1) % SeqMod
\* uint32 decrement: seqNum := ackNum - 1
Pred32(n) == (n + SeqMod - 1) % SeqMod
\* Every uint32 value; an acknowledgment may carry any of them.
Seq32 == 0..(SeqMod - 1)
AckNums == Seq32

\* Lock-free engine: nil pointer, an unallocated entry, SeqNum values in use.
Nil == 0
NoLFEntry == [SeqNum |-> -1, SendTime |-> -1, RetryCount |-> -1]
LFSeqs == 0..MaxLFSeq

Range(seq) == {seq[i] : i \in 1..Len(seq)}

\* ---------------------------------------------------------------- Init
InitRecv ==
  /\ receivedSeqs = {}
  /\ orderingBuffer = {}
  /\ nextExpectedSeq = InitNextExpectedSeq
  /\ maxBufferSize = InitMaxBufferSize
  /\ rpc = [t \in Receivers |-> "idle"]
  /\ rpkt = [t \in Receivers |-> 0]
  /\ rsize = [t \in Receivers |-> 0]
  /\ rret = [t \in Receivers |-> "none"]
  /\ delivered = <<>>

InitSend ==
  /\ nextSeqNum = InitNextSeqNum
  /\ unackedPackets = [q \in Seq32 |-> NoEntry]
  /\ windowSize = InitWindowSize
  /\ congestionWindow = InitCongestionWindow
  /\ ssthresh = InitSsthresh
  /\ rttSamples = <<>>
  /\ averageRTT = InitAverageRTT
  /\ retransmissionTimeout = InitRetransmissionTimeout
  /\ cspc = "idle"
  /\ csCount = 0

InitEnv ==
  /\ now = 0
  /\ dataSends = 0
  /\ issued = {}
  /\ seqLog = <<>>
  /\ lfNextSeqNum = LFInitNextSeqNum
  /\ lfSeqLog = <<>>
  /\ ret = [op |-> "none"]

InitLF ==
  /\ unackedTable = [b \in 0..(TableSize - 1) |-> Nil]
  /\ heap = [e \in 1..MaxEntries |-> NoLFEntry]
  /\ congWindow = LFInitCongWindow
  /\ rttEstimate = LFInitRttEstimate
  /\ timeoutBase = LFInitTimeoutBase
  /\ packetsSent = 0
  /\ packetsRecv = 0
  /\ packetsLost = 0
  /\ packetsRetr = 0
  /\ recvQueue = <<>>
  /\ lfDelivered = <<>>
  /\ scanPc = "idle"
  /\ scanNow = 0
  /\ scanTimeout = 0
  /\ scanIdx = 0
  /\ scanValue = Nil
  /\ timedOut = <<>>
  /\ ackPc = "idle"
  /\ ackEntry = Nil
  /\ ackTimeout = 0
  /\ lastReport = [e \in 1..MaxEntries |-> -1]

\* NewUltraFastHTTPServer / NewEpollEventLoop: running is 0 and false, no
\* goroutine has been started.
InitServer ==
  /\ sRunning = 0
  /\ elRunning = FALSE
  /\ startPc = "idle"
  /\ relPc = "none"
  /\ statsPc = "none"
  /\ stopPc = "idle"

\* the nil *Packet
NoPacket == [Version |-> 0, Type |-> 0, Flags |-> 0, Length |-> 0,
             SeqNum |-> [hi |-> 0, lo |-> 0], AckNum |-> [hi |-> 0, lo |-> 0],
             Checksum |-> [hi |-> 0, lo |-> 0], Payload |-> <<>>]

InitPacket ==
  /\ wire = <<>>
  /\ orig = [packet |-> NoPacket,
             input |-> [Type |-> 0, Flags |-> 0, SeqNum |-> [hi |-> 0, lo |-> 0],
                        AckNum |-> [hi |-> 0, lo |-> 0], Payload |-> <<>>],
             changes |-> {}, flipped |-> 0]
  /\ parsed = NoPacket
  /\ perr = "none"

Senders == {"s1", "s2"}
InitSenders == senders = [t \in Senders |-> [pc |-> "idle", count |-> 0]]

Ackers == {"a1", "a2"}
IdleAcker == [pc |-> "idle", ack |-> 0, cur |-> 0, sample |-> 0, old |-> 0,
              new |-> 0, result |-> "none"]
InitAckers == ackers = [t \in Ackers |-> IdleAcker]

Mutexes == {"seqMutex", "unackedMutex", "receivedMutex", "orderingMutex",
            "windowMutex", "congestionMutex", "rttMutex"}
Lockers == {"g1", "g2", "g3"}
IdleLocker == [path |-> "idle", at |-> 0, held |-> <<>>]
InitLocks ==
  /\ mu = [m \in Mutexes |-> [writer |-> "none", readers |-> {}]]
  /\ lockers = [t \in Lockers |-> IdleLocker]

Enqueuers == {"e1", "e2"}
Dequeuers == {"d1", "d2"}
IdleEnqueuer == [pc |-> "idle", node |-> Nil, tail |-> Nil, next |-> Nil]
IdleDequeuer == [pc |-> "idle", head |-> Nil, tail |-> Nil, next |-> Nil,
                 sawEmpty |-> FALSE, result |-> -1]
\* NewLockFreeQueue: head and tail point to one dummy node
InitQueue ==
  /\ qnodes = <<[next |-> Nil, data |-> Nil, by |-> "none"]>>
  /\ qhead = 1
  /\ qtail = 1
  /\ enqs = [t \in Enqueuers |-> IdleEnqueuer]
  /\ deqs = [t \in Dequeuers |-> IdleDequeuer]
  /\ dequeued = <<>>

Updaters == {"u1", "u2"}
InitUpdaters == updaters = [t \in Updaters |-> [pc |-> "idle", success |-> FALSE, old |-> 0]]

\* no table constructed yet
InitTable ==
  ht = [state |-> "none", size |-> 0, mask |-> 0, buckets |-> <<>>, result |-> "none"]

Init == InitRecv /\ InitSend /\ InitEnv /\ InitLF /\ InitServer /\ InitPacket /\ InitTable /\ InitAckers /\ InitSenders /\ InitUpdaters
        /\ InitLocks /\ InitQueue

\* ------------------------------------------------- ReceivePacket (locked)
\* bufferSize := len(r.orderingBuffer) under orderingMutex.RLock.
RecvReadSizeBody(t, seq) ==
  /\ rpc[t] = "idle"
  /\ rpkt' = [rpkt EXCEPT ![t] = seq]
  /\ rsize' = [rsize EXCEPT ![t] = Cardinality(orderingBuffer)]
  /\ rpc' = [rpc EXCEPT ![t] = "size_check"]
  /\ rret' = [rret EXCEPT ![t] = "none"]
  /\ UNCHANGED <<receivedSeqs, orderingBuffer, nextExpectedSeq, maxBufferSize, delivered>>

RecvReadSize(t, seq) ==
  /\ RecvReadSizeBody(t, seq)
  /\ UNCHANGED <<sendVars, envVars, lfVars>>

\* bufferSize >= r.maxBufferSize
OverflowsStrict(size, max) == size > max
Overflows(size, max) == size >= max

\* if bufferSize >= r.maxBufferSize { return overflow error }
RecvCheckSize(t) ==
  /\ rpc[t] = "size_check"
  /\ IF Overflows(rsize[t], maxBufferSize)
       THEN /\ rpc' = [rpc EXCEPT ![t] = "idle"]
            /\ rret' = [rret EXCEPT ![t] = "overflow"]
       ELSE /\ rpc' = [rpc EXCEPT ![t] = "dup_check"]
            /\ rret' = rret
  /\ rsize' = [rsize EXCEPT ![t] = 0]
  /\ UNCHANGED <<receivedSeqs, orderingBuffer, nextExpectedSeq, maxBufferSize,
                 rpkt, delivered>>
  /\ UNCHANGED <<sendVars, envVars, lfVars>>

\* if r.IsPacketDuplicate(packet) { return nil }
RecvCheckDup(t) ==
  /\ rpc[t] = "dup_check"
  /\ IF rpkt[t] \in receivedSeqs
       THEN /\ rpc' = [rpc EXCEPT ![t] = "idle"]
            /\ rret' = [rret EXCEPT ![t] = "dup"]
       ELSE /\ rpc' = [rpc EXCEPT ![t] = "mark"]
            /\ rret' = rret
  /\ UNCHANGED <<receivedSeqs, orderingBuffer, nextExpectedSeq, maxBufferSize,
                 rpkt, rsize, delivered>>
  /\ UNCHANGED <<sendVars, envVars, lfVars>>

\* r.MarkPacketReceived(packet)
RecvMark(t) ==
  /\ rpc[t] = "mark"
  /\ receivedSeqs' = receivedSeqs \cup {rpkt[t]}
  /\ rpc' = [rpc EXCEPT ![t] = "insert"]
  /\ UNCHANGED <<orderingBuffer, nextExpectedSeq, maxBufferSize, rpkt, rsize,
                 rret, delivered>>
  /\ UNCHANGED <<sendVars, envVars, lfVars>>

\* r.orderingBuffer[packet.SeqNum] = packet under orderingMutex.Lock; return nil
RecvInsert(t) ==
  /\ rpc[t] = "insert"
  /\ orderingBuffer' = orderingBuffer \cup {rpkt[t]}
  /\ rpc' = [rpc EXCEPT ![t] = "idle"]
  /\ rret' = [rret EXCEPT ![t] = "ok"]
  /\ UNCHANGED <<receivedSeqs, nextExpectedSeq, maxBufferSize, rpkt, rsize, delivered>>
  /\ UNCHANGED <<sendVars, envVars, lfVars>>

\* ---------------------------------------------- GetOrderedPackets (locked)
\* The drain loop: while orderingBuffer[nextExpectedSeq] exists, append it,
\* delete it and increment nextExpectedSeq.
RECURSIVE DrainSkipGaps(_, _, _)
DrainSkipGaps(buf, next, out) ==
  IF buf = {} THEN [buf |-> buf, next |-> next, out |-> out]
  ELSE IF next \in buf
    THEN DrainSkipGaps(buf \ {next}, Succ32(next), Append(out, next))
    ELSE DrainSkipGaps(buf, Succ32(next), out)

RECURSIVE Drain(_, _, _)
Drain(buf, next, out) ==
  IF next \in buf
    THEN Drain(buf \ {next}, Succ32(next), Append(out, next))
    ELSE [buf |-> buf, next |-> next, out |-> out]

GetOrderedPacketsBody ==
  LET d == Drain(orderingBuffer, nextExpectedSeq, <<>>) IN
  /\ orderingBuffer' = d.buf
  /\ nextExpectedSeq' = d.next
  /\ delivered' = delivered \o d.out
  /\ UNCHANGED <<receivedSeqs, maxBufferSize, rpc, rpkt, rsize, rret>>

GetOrderedPackets ==
  /\ GetOrderedPacketsBody
  /\ UNCHANGED <<sendVars, envVars, lfVars>>

\* r.maxBufferSize = size
SetMaxBufferSize(size) ==
  /\ maxBufferSize' = size
  /\ UNCHANGED <<receivedSeqs, orderingBuffer, nextExpectedSeq, rpc, rpkt,
                 rsize, rret, delivered>>
  /\ UNCHANGED <<sendVars, envVars, lfVars>>

NextRecv ==
  \/ \E t \in Receivers, seq \in RecvSeqs : RecvReadSize(t, seq)
  \/ \E t \in Receivers : RecvCheckSize(t)
  \/ \E t \in Receivers : RecvCheckDup(t)
  \/ \E t \in Receivers : RecvMark(t)
  \/ \E t \in Receivers : RecvInsert(t)
  \/ GetOrderedPackets
  \/ \E size \in 1..MaxBufCfg : SetMaxBufferSize(size)

SpecRecv == Init /\ [][NextRecv]_vars

\* The same callers, the buffer bound being configured before the first
\* packet arrives and left alone afterwards.
NextRecvSetup ==
  \/ \E size \in 1..MaxBufCfg :
       /\ receivedSeqs = {}
       /\ \A t \in Receivers : rpc[t] = "idle"
       /\ SetMaxBufferSize(size)
  \/ \E t \in Receivers, seq \in RecvSeqs : RecvReadSize(t, seq)
  \/ \E t \in Receivers : RecvCheckSize(t)
  \/ \E t \in Receivers : RecvCheckDup(t)
  \/ \E t \in Receivers : RecvMark(t)
  \/ \E t \in Receivers : RecvInsert(t)
  \/ GetOrderedPackets

SpecRecvSetup == Init /\ [][NextRecvSetup]_vars

\* ============================================ ReliabilityLayer, send side
Tracked(q) == unackedPackets[q] # NoEntry
TrackedSeqs == {q \in Seq32 : Tracked(q)}
\* len(r.unackedPackets)
NumUnacked == Cardinality(TrackedSeqs)

\* time advances
Tick ==
  /\ now' = now + 1
  /\ UNCHANGED <<lfVars, recvVars, sendVars, dataSends, issued, seqVars, srvVars, pktVars, tblVars, lfAckVars, flowVars, winVars, lockVars, queueVars, ret>>

\* NextSeqNum: return r.nextSeqNum under seqMutex
NextSeqNum ==
  /\ ret' = [op |-> "NextSeqNum", val |-> nextSeqNum]
  /\ UNCHANGED <<lfVars, recvVars, sendVars, now, dataSends, issued, seqVars, srvVars, pktVars, tblVars, lfAckVars, flowVars, winVars, lockVars, queueVars>>

\* seq := r.nextSeqNum; r.nextSeqNum++; return seq
GetNextSeqNum ==
  /\ ret' = [op |-> "GetNextSeqNum", val |-> nextSeqNum]
  /\ nextSeqNum' = Succ32(nextSeqNum)
  /\ issued' = issued \cup {nextSeqNum}
  /\ seqLog' = Append(seqLog, nextSeqNum)
  /\ UNCHANGED <<lfNextSeqNum, lfSeqLog, srvVars, pktVars, tblVars, lfAckVars, flowVars, winVars, lockVars, queueVars>>
  /\ UNCHANGED <<lfVars, recvVars, unackedPackets, windowSize, congestionWindow, ssthresh,
                 rttSamples, averageRTT, retransmissionTimeout, cspc, csCount,
                 now, dataSends>>

\* SendPacket -> SendPacketWithTimestamp(packet, time.Now()): only a DATA
\* packet is stored, with RetryCount 0.
SendPacketBody(type, seq) ==
  /\ IF type = DATA_PACKET
       THEN /\ unackedPackets' = [unackedPackets EXCEPT ![seq] = [sent |-> now, retry |-> 0]]
            /\ dataSends' = dataSends + 1
       ELSE UNCHANGED <<unackedPackets, dataSends>>
  /\ ret' = [op |-> "SendPacket"]
  /\ UNCHANGED <<nextSeqNum, windowSize, congestionWindow, ssthresh,
                 rttSamples, averageRTT, retransmissionTimeout, cspc, csCount,
                 now, issued, seqVars, srvVars, pktVars, tblVars, lfAckVars>>

SendPacket(type, seq) ==
  /\ SendPacketBody(type, seq)
  /\ UNCHANGED <<lfVars, recvVars, flowVars, winVars, lockVars, queueVars>>

\* updateRTT: keep the last 10 samples, average them, RTO = 2 * average
\* clamped to [100 ms, 5 s].
Sum(seq) ==
  LET RECURSIVE S(_)
      S(i) == IF i = 0 THEN 0 ELSE seq[i] + S(i - 1)
  IN S(Len(seq))

Unclamped(x, lo, hi) == x
Clamp(x, lo, hi) == IF x < lo THEN lo ELSE IF x > hi THEN hi ELSE x

UpdateRTT(samples, sample) ==
  LET app == Append(samples, sample)
      kept == IF Len(app) > MaxRttSamples THEN Tail(app) ELSE app
      avg == Sum(kept) \div Len(kept)
  IN [samples |-> kept, avg |-> avg, rto |-> Clamp(avg * 2, MinTimeout, MaxTimeout)]

\* handleSuccessfulAck: slow start below ssthresh, else cwnd += 1 / cwnd.
AlwaysGrow(cwnd, thresh) == cwnd + 1
AckedWindow(cwnd, thresh) ==
  IF cwnd < thresh THEN cwnd + 1
  ELSE IF cwnd > 0 THEN cwnd + (1 \div cwnd) ELSE cwnd

\* if seqNum > r.nextSeqNum { return error }
FutureAckInclusive(seq, next) == seq >= next
FutureAck(seq, next) == seq > next

\* HandleAck(ackPacket); hasAck is ackPacket.HasAck().
HandleAckBody(ack, hasAck) ==
  LET seq == Pred32(ack)
      repeats == /\ ret.op = "HandleAck"
                 /\ ret.ack = ack
                 /\ ret.existed \/ ret.repeat
  IN
  /\ IF ~hasAck
       THEN /\ ret' = [op |-> "HandleAck", ack |-> ack, was |-> congestionWindow, existed |-> FALSE,
                       repeat |-> FALSE, err |-> "not_ack"]
            /\ UNCHANGED <<unackedPackets, rttSamples, averageRTT,
                           retransmissionTimeout, congestionWindow>>
       ELSE IF ~Tracked(seq)
         THEN /\ ret' = [op |-> "HandleAck", ack |-> ack, was |-> congestionWindow, existed |-> FALSE,
                         repeat |-> repeats,
                         err |-> IF FutureAck(seq, nextSeqNum) THEN "future" ELSE "nil"]
              /\ UNCHANGED <<unackedPackets, rttSamples, averageRTT,
                             retransmissionTimeout, congestionWindow>>
         ELSE LET u == UpdateRTT(rttSamples, now - unackedPackets[seq].sent) IN
              /\ rttSamples' = u.samples
              /\ averageRTT' = u.avg
              /\ retransmissionTimeout' = u.rto
              /\ unackedPackets' = [unackedPackets EXCEPT ![seq] = NoEntry]
              /\ congestionWindow' = AckedWindow(congestionWindow, ssthresh)
              /\ ret' = [op |-> "HandleAck", ack |-> ack, was |-> congestionWindow, existed |-> TRUE,
                         repeat |-> FALSE, err |-> "nil"]
  /\ UNCHANGED <<nextSeqNum, windowSize, ssthresh, cspc, csCount,
                 now, dataSends, issued, seqVars, srvVars, pktVars, tblVars>>

HandleAck(ack, hasAck) ==
  /\ HandleAckBody(ack, hasAck)
  /\ UNCHANGED <<lfVars, recvVars, lfAckVars, flowVars, winVars, lockVars, queueVars>>

\* GetTimedOutPackets: under the read lock, collect every packet with
\* now.Sub(SentTime) > r.retransmissionTimeout; nothing is written.
Expired(entry, at, timeout) == at - entry.sent > timeout

GetTimedOutPackets ==
  /\ ret' = [op |-> "GetTimedOutPackets", at |-> now,
             val |-> {q \in TrackedSeqs : Expired(unackedPackets[q], now, retransmissionTimeout)}]
  /\ UNCHANGED <<lfVars, recvVars, sendVars, now, dataSends, issued, seqVars, srvVars, pktVars, tblVars, lfAckVars, flowVars, winVars, lockVars, queueVars>>

\* CanSendPacket: unackedCount under unackedMutex.RLock, ...
CanSendReadCount ==
  /\ cspc = "idle"
  /\ csCount' = NumUnacked
  /\ cspc' = "have_count"
  /\ UNCHANGED <<lfVars, recvVars, nextSeqNum, unackedPackets, windowSize, congestionWindow,
                 ssthresh, rttSamples, averageRTT, retransmissionTimeout, envVars>>

\* ... windowSize under windowMutex.RLock; return unackedCount < windowSize
WindowOpenInclusive(count, window) == count <= window
WindowOpen(count, window) == count < window

CanSendReturn ==
  /\ cspc = "have_count"
  /\ ret' = [op |-> "CanSendPacket", val |-> WindowOpen(csCount, windowSize)]
  /\ cspc' = "idle"
  /\ csCount' = 0
  /\ UNCHANGED <<lfVars, recvVars, nextSeqNum, unackedPackets, windowSize, congestionWindow,
                 ssthresh, rttSamples, averageRTT, retransmissionTimeout,
                 now, dataSends, issued, seqVars, srvVars, pktVars, tblVars, lfAckVars, flowVars, winVars, lockVars, queueVars>>

SetWindowSize(size) ==
  /\ windowSize' = size
  /\ ret' = [op |-> "SetWindowSize"]
  /\ UNCHANGED <<lfVars, recvVars, nextSeqNum, unackedPackets, congestionWindow,
                 ssthresh, rttSamples, averageRTT, retransmissionTimeout, cspc,
                 csCount, now, dataSends, issued, seqVars, srvVars, pktVars, tblVars, lfAckVars, flowVars, winVars, lockVars, queueVars>>

SetRetransmissionTimeout(timeout) ==
  /\ retransmissionTimeout' = timeout
  /\ ret' = [op |-> "SetRetransmissionTimeout"]
  /\ UNCHANGED <<lfVars, recvVars, nextSeqNum, unackedPackets, windowSize, congestionWindow,
                 ssthresh, rttSamples, averageRTT, cspc, csCount,
                 now, dataSends, issued, seqVars, srvVars, pktVars, tblVars, lfAckVars, flowVars, winVars, lockVars, queueVars>>

\* SimulatePacketLoss: ssthresh = max(1, cwnd / 2); cwnd = ssthresh
HalvedNoFloor(cwnd) == cwnd \div 2
HalvedWindow(cwnd) == IF cwnd \div 2 < 1 THEN 1 ELSE cwnd \div 2

SimulatePacketLossBody ==
  /\ ssthresh' = HalvedWindow(congestionWindow)
  /\ congestionWindow' = HalvedWindow(congestionWindow)
  /\ ret' = [op |-> "SimulatePacketLoss", was |-> congestionWindow]
  /\ UNCHANGED <<nextSeqNum, unackedPackets, windowSize,
                 rttSamples, averageRTT, retransmissionTimeout, cspc,
                 csCount, now, dataSends, issued, seqVars, srvVars, pktVars, tblVars, lfAckVars, flowVars, winVars, lockVars, queueVars>>

SimulatePacketLoss ==
  /\ SimulatePacketLossBody
  /\ UNCHANGED <<lfVars, recvVars>>

\* Sequence numbers, sends and acknowledgments over time.
NextAck ==
  \/ (now < MaxTime /\ Tick)
  \/ (Cardinality(issued) < MaxIssued /\ GetNextSeqNum)
  \/ \E type \in SentTypes, seq \in SendSeqs :
       (type = DATA_PACKET => dataSends < MaxAckSends) /\ SendPacket(type, seq)
  \/ \E ack \in AckNums, hasAck \in BOOLEAN : HandleAck(ack, hasAck)

SpecAck == Init /\ [][NextAck]_vars

\* The flow-control gate.
NextFlow ==
  \/ \E seq \in SendSeqs : dataSends < MaxSends /\ SendPacket(DATA_PACKET, seq)
  \/ \E ack \in AckNums : HandleAck(ack, TRUE)
  \/ CanSendReadCount
  \/ CanSendReturn
  \/ \E size \in 1..MaxWindowCfg : SetWindowSize(size)
  \/ SimulatePacketLoss

SpecFlow == Init /\ [][NextFlow]_vars

\* The retransmission scan.
NextTimeout ==
  \/ (now < MaxTime /\ Tick)
  \/ \E seq \in SendSeqs : dataSends < MaxSends /\ SendPacket(DATA_PACKET, seq)
  \/ \E ack \in AckNums : HandleAck(ack, TRUE)
  \/ GetTimedOutPackets
  \/ \E timeout \in 0..MaxTimeoutCfg : SetRetransmissionTimeout(timeout)

SpecTimeout == Init /\ [][NextTimeout]_vars

\* ===================================== LockFreeReliabilityLayer, tracker
\* atomic.AddUint64(&counter, delta)
AddLost(counter, delta) == counter
AddUint64(counter, delta) == counter + delta

\* the conversion uint32(x) of a uint64
Untruncated(x) == x
Uint32(x) == x % SeqMod

\* return uint32(atomic.AddUint64(&rf.nextSeqNum, 1) - 1)
LFGetNextSeqNum ==
  /\ lfNextSeqNum' = lfNextSeqNum + 1
  /\ lfSeqLog' = Append(lfSeqLog, Uint32((lfNextSeqNum + 1) - 1))
  /\ UNCHANGED <<recvVars, sendVars, now, dataSends, issued, seqLog, srvVars, pktVars, tblVars, lfAckVars, flowVars, winVars, lockVars, queueVars, ret, lfVars>>

\* hash := key & ht.mask
Hash(key) == key % TableSize
Buckets == 0..(TableSize - 1)
EntryIds == 1..MaxEntries
\* An UnackedEntry that neither the table, the scan nor HandleAck points to
\* any more is garbage: its memory is forgotten.
Release(h, e, held) == IF held THEN h ELSE [h EXCEPT ![e] = NoLFEntry]
\* The report history of a released entry is forgotten with it.
Forget(h, e, held) == IF held THEN h ELSE [h EXCEPT ![e] = -1]
\* The entry is reachable from its bucket of the table.
InTable(e) == \E b \in Buckets : unackedTable[b] = e

\* SendPacket: non-DATA packets are not tracked; Insert returns false when
\* the bucket is occupied, else the bucket is swapped from nil to the entry
\* and packetsSent is incremented.
LFSendPacketBody(type, seq) ==
  /\ IF type # DATA_PACKET \/ unackedTable[Hash(seq)] # Nil
       THEN UNCHANGED <<unackedTable, heap, packetsSent>>
       ELSE LET e == packetsSent + 1 IN
            /\ heap' = [heap EXCEPT ![e] = [SeqNum |-> seq, SendTime |-> now,
                                            RetryCount |-> 0]]
            /\ unackedTable' = [unackedTable EXCEPT ![Hash(seq)] = e]
            /\ packetsSent' = AddUint64(packetsSent, 1)
  /\ UNCHANGED <<congWindow, rttEstimate, timeoutBase, packetsLost, packetsRetr,
                 scanVars, ackVars, lastReport>>

LFSendPacket(type, seq) ==
  /\ LFSendPacketBody(type, seq)
  /\ UNCHANGED <<recvVars, sendVars, envVars, lfRecvVars>>

\* HandleAck, first part: HasAck test and unackedTable.Remove(seqNum), whose
\* compare-and-swap empties the bucket whatever entry it holds; the call
\* returns false at once when there is no ACK flag or the bucket is nil.
LFHandleAckRemoveBody(ack, hasAck) ==
  /\ ackPc = "idle"
  /\ IF ~hasAck \/ unackedTable[Hash(Pred32(ack))] = Nil
       THEN UNCHANGED <<unackedTable, ackVars>>
       ELSE /\ ackEntry' = unackedTable[Hash(Pred32(ack))]
            /\ unackedTable' = [unackedTable EXCEPT ![Hash(Pred32(ack))] = Nil]
            /\ ackPc' = "rtt"
            /\ UNCHANGED ackTimeout
  /\ UNCHANGED <<heap, congWindow, rttEstimate, timeoutBase, packetsSent,
                 packetsLost, packetsRetr, scanVars, lastReport>>

LFHandleAckRemove(ack, hasAck) ==
  /\ LFHandleAckRemoveBody(ack, hasAck)
  /\ UNCHANGED <<recvVars, sendVars, envVars, lfRecvVars>>

\* updateRTTAtomic: newRTT = (oldRTT * 7 + sampleRTT) / 8
SmoothedRTT(old, sample) == (old * 7 + sample) \div 8
\* newTimeout = newRTT * 4 clamped to [100 ms, 5 s]
TimeoutFor(rtt) == Clamp(rtt * 4, LFMinTimeout, LFMaxTimeout)

\* HandleAck, second part: rtt := now - entry.SendTime and the successful
\* compare-and-swap of rttEstimate.
LFHandleAckRtt ==
  /\ ackPc = "rtt"
  /\ rttEstimate' = SmoothedRTT(rttEstimate, now - heap[ackEntry].SendTime)
  /\ ackTimeout' = TimeoutFor(rttEstimate')
  /\ ackPc' = "timeout"
  /\ UNCHANGED <<recvVars, sendVars, envVars>>
  /\ UNCHANGED <<unackedTable, heap, congWindow, timeoutBase, packetsSent,
                 packetsLost, packetsRetr, scanVars, ackEntry, lastReport, lfRecvVars>>

\* atomic.StoreUint64(&rf.timeoutBase, newTimeout)
LFHandleAckTimeout ==
  /\ ackPc = "timeout"
  /\ timeoutBase' = ackTimeout
  /\ ackPc' = "cwnd"
  /\ UNCHANGED <<recvVars, sendVars, envVars>>
  /\ UNCHANGED <<unackedTable, heap, congWindow, rttEstimate, packetsSent,
                 packetsLost, packetsRetr, scanVars, ackEntry, ackTimeout,
                 lastReport, lfRecvVars>>

\* updateCongestionWindow(true): +1 below windowSize / 2, else + 1 / old,
\* capped at windowSize.
GrownWindow(old, win) ==
  LET grown == IF old < win \div 2 THEN old + 1 ELSE old + (1 \div old)
  IN IF grown > win THEN win ELSE grown

\* updateCongestionWindow(false): old / 2, at least 1.
ShrunkNoFloor(old) == old \div 2
ShrunkWindow(old) == IF old \div 2 < 1 THEN 1 ELSE old \div 2

\* HandleAck, last part: the congestion-window compare-and-swap; the entry
\* goes out of scope.
LFHandleAckWindow ==
  /\ ackPc = "cwnd"
  /\ congWindow' = GrownWindow(congWindow, LFWindowSize)
  /\ ackPc' = "idle"
  /\ ackEntry' = Nil
  /\ ackTimeout' = 0
  /\ heap' = Release(heap, ackEntry, scanValue = ackEntry)
  /\ lastReport' = Forget(lastReport, ackEntry, scanValue = ackEntry)
  /\ UNCHANGED <<recvVars, sendVars, envVars>>
  /\ UNCHANGED <<unackedTable, rttEstimate, timeoutBase, packetsSent,
                 packetsLost, packetsRetr, scanVars, lfRecvVars>>

\* GetTimedOutPackets as run by the single reliabilityWorker goroutine.
\* now := time.Now(); timeout := atomic.LoadUint64(&rf.timeoutBase)
ScanStartBody ==
  /\ scanPc = "idle"
  /\ scanNow' = now
  /\ scanTimeout' = timeoutBase
  /\ scanIdx' = 0
  /\ timedOut' = <<>>
  /\ scanPc' = "load"
  /\ UNCHANGED scanValue
  /\ UNCHANGED <<unackedTable, heap, congWindow, rttEstimate, timeoutBase,
                 packetsSent, packetsLost, packetsRetr, ackVars, lastReport,
                 lfRecvVars>>

ScanStart ==
  /\ ScanStartBody
  /\ UNCHANGED <<recvVars, sendVars, envVars>>

\* ForEach: value := atomic.LoadPointer(&ht.buckets[i]); a nil bucket is
\* skipped.
ScanLoad ==
  /\ scanPc = "load"
  /\ scanIdx < TableSize
  /\ IF unackedTable[scanIdx] = Nil
       THEN /\ scanIdx' = scanIdx + 1
            /\ UNCHANGED <<scanPc, scanValue>>
       ELSE /\ scanValue' = unackedTable[scanIdx]
            /\ scanPc' = "visit"
            /\ UNCHANGED scanIdx
  /\ UNCHANGED <<scanNow, scanTimeout, timedOut>>
  /\ UNCHANGED <<recvVars, sendVars, envVars>>
  /\ UNCHANGED <<unackedTable, heap, congWindow, rttEstimate, timeoutBase,
                 packetsSent, packetsLost, packetsRetr, ackVars, lastReport,
                 lfRecvVars>>

\* now - entry.SendTime > timeout on uint64: the difference wraps to a huge
\* value when the entry was stamped after the scan read the clock.
TimedOutInclusive(at, sent, timeout) == sent > at \/ at - sent >= timeout
TimedOut(at, sent, timeout) == sent > at \/ at - sent > timeout

\* The callback of ForEach on the loaded pointer: a timed-out entry is
\* appended, its RetryCount and packetsRetr are incremented, its SendTime is
\* set to the scan time and the congestion window is halved.
ScanVisit ==
  /\ scanPc = "visit"
  /\ LET held == InTable(scanValue) \/ ackEntry = scanValue IN
     IF TimedOut(scanNow, heap[scanValue].SendTime, scanTimeout)
       THEN /\ timedOut' = Append(timedOut, heap[scanValue].SeqNum)
            /\ heap' = Release([heap EXCEPT ![scanValue].RetryCount = @ + 1,
                                            ![scanValue].SendTime = scanNow],
                               scanValue, held)
            /\ packetsRetr' = AddUint64(packetsRetr, 1)
            /\ congWindow' = ShrunkWindow(congWindow)
            /\ lastReport' = Forget([lastReport EXCEPT ![scanValue] = scanNow],
                                    scanValue, held)
       ELSE /\ heap' = Release(heap, scanValue, held)
            /\ lastReport' = Forget(lastReport, scanValue, held)
            /\ UNCHANGED <<timedOut, packetsRetr, congWindow>>
  /\ scanIdx' = scanIdx + 1
  /\ scanValue' = Nil
  /\ scanPc' = "load"
  /\ UNCHANGED <<scanNow, scanTimeout>>
  /\ UNCHANGED <<recvVars, sendVars, envVars>>
  /\ UNCHANGED <<unackedTable, rttEstimate, timeoutBase, packetsSent,
                 packetsLost, ackVars, lfRecvVars>>

\* After the last bucket: packetsLost += len(timedOut); return timedOut.
ScanEndBody ==
  /\ scanPc = "load"
  /\ scanIdx = TableSize
  /\ packetsLost' = AddUint64(packetsLost, Len(timedOut))
  /\ scanPc' = "idle"
  /\ scanNow' = 0
  /\ scanTimeout' = 0
  /\ scanIdx' = 0
  /\ timedOut' = <<>>
  /\ UNCHANGED scanValue
  /\ UNCHANGED <<unackedTable, heap, congWindow, rttEstimate, timeoutBase,
                 packetsSent, packetsRetr, ackVars, lastReport, lfRecvVars>>

ScanEnd ==
  /\ ScanEndBody
  /\ UNCHANGED <<recvVars, sendVars, envVars>>

Scan == ScanStart \/ ScanLoad \/ ScanVisit \/ ScanEnd

\* Senders, the acknowledgment path and the reliability worker.
NextLFTrack ==
  \/ (now < MaxLFTime /\ Tick)
  \/ \E type \in SentTypes, seq \in LFSeqs :
       (type = DATA_PACKET => packetsSent < MaxEntries)
         /\ LFSendPacket(type, seq)
  \/ \E seq \in LFSeqs, hasAck \in BOOLEAN : LFHandleAckRemove(Succ32(seq), hasAck)
  \/ LFHandleAckRtt
  \/ LFHandleAckTimeout
  \/ LFHandleAckWindow
  \/ ScanStart
  \/ ScanLoad
  \/ ScanVisit
  \/ ScanEnd

SpecLFTrack == Init /\ [][NextLFTrack]_vars

\* The reliability worker keeps scanning while the server runs.
SpecLFTrackLive == SpecLFTrack /\ WF_vars(Scan)

\* ================================= LockFreeReliabilityLayer, receive side
\* ReceivePacket: non-DATA packets return true unqueued; isDuplicate returns
\* false for every sequence number; Enqueue links the packet and returns
\* true; packetsRecv is incremented; markReceived does nothing.
IsDuplicate(seq) == FALSE

LFReceivePacketBody(type, seq) ==
  /\ IF type # DATA_PACKET
       THEN /\ ret' = [op |-> "LFReceivePacket", type |-> type, seq |-> seq,
                       again |-> FALSE, val |-> TRUE]
            /\ UNCHANGED <<recvQueue, packetsRecv>>
       ELSE IF IsDuplicate(seq)
         THEN /\ ret' = [op |-> "LFReceivePacket", type |-> type, seq |-> seq,
                         again |-> TRUE, val |-> FALSE]
              /\ UNCHANGED <<recvQueue, packetsRecv>>
         ELSE /\ recvQueue' = Append(recvQueue, seq)
              /\ packetsRecv' = AddUint64(packetsRecv, 1)
              /\ ret' = [op |-> "LFReceivePacket", type |-> type, seq |-> seq,
                         again |-> seq \in (Range(recvQueue) \cup Range(lfDelivered)),
                         val |-> TRUE]
  /\ UNCHANGED lfDelivered

LFReceivePacket(type, seq) ==
  /\ LFReceivePacketBody(type, seq)
  /\ UNCHANGED <<recvVars, sendVars, now, dataSends, issued, seqVars, srvVars, pktVars, tblVars, lfAckVars, flowVars, winVars, lockVars, queueVars>>
  /\ UNCHANGED lfTrackVars

\* GetOrderedPackets: Dequeue until the queue is empty, return the packets in
\* arrival order.
LFGetOrderedPacketsBody ==
  /\ ret' = [op |-> "LFGetOrderedPackets", val |-> recvQueue]
  /\ lfDelivered' = lfDelivered \o recvQueue
  /\ recvQueue' = <<>>
  /\ UNCHANGED packetsRecv

LFGetOrderedPackets ==
  /\ LFGetOrderedPacketsBody
  /\ UNCHANGED <<recvVars, sendVars, now, dataSends, issued, seqVars, srvVars, pktVars, tblVars, lfAckVars, flowVars, winVars, lockVars, queueVars>>
  /\ UNCHANGED lfTrackVars

NextLFRecv ==
  \/ \E type \in SentTypes, seq \in LFSeqs :
       (type = DATA_PACKET => packetsRecv < MaxLFRecv) /\ LFReceivePacket(type, seq)
  \/ LFGetOrderedPackets

SpecLFRecv == Init /\ [][NextLFRecv]_vars

\* Senders, receivers and the reliability worker on one engine.
\* Inbound packets of the counting scenario carry one of two sequence numbers.
LFStatSeqs == {0, 1}

NextLFStats ==
  \/ (now < MaxLFStatTime /\ Tick)
  \/ \E type \in SentTypes, seq \in LFSeqs :
       (type = DATA_PACKET => packetsSent < MaxEntries)
         /\ LFSendPacket(type, seq)
  \/ \E type \in SentTypes, seq \in LFStatSeqs :
       (type = DATA_PACKET => packetsRecv < MaxLFStatRecv) /\ LFReceivePacket(type, seq)
  \/ ScanStart
  \/ ScanLoad
  \/ ScanVisit
  \/ ScanEnd

SpecLFStats == Init /\ [][NextLFStats]_vars

\* ============================ UltraFastHTTPServer: Start, Stop, the workers
\* Every server action leaves both engines' receive side, the locked
\* engine and the call history alone.
SrvFrame == <<recvVars, sendVars, now, dataSends, issued, seqVars, pktVars, tblVars, lfAckVars, flowVars, winVars, lockVars, queueVars, ret>>

\* Start: atomic.StoreInt32(&s.running, 1)
StartStore ==
  /\ startPc = "idle"
  /\ sRunning' = 1
  /\ startPc' = "add_socket"
  /\ UNCHANGED <<elRunning, relPc, statsPc, stopPc, SrvFrame, lfVars>>

\* s.eventLoop.AddSocket(s.socket, handler); on an error Start returns it.
StartAddSocket ==
  /\ startPc = "add_socket"
  /\ startPc' \in {"go_reliability", "failed"}
  /\ UNCHANGED <<sRunning, elRunning, relPc, statsPc, stopPc, SrvFrame, lfVars>>

\* go s.reliabilityWorker()
StartGoReliability ==
  /\ startPc = "go_reliability"
  /\ relPc' = "loop"
  /\ startPc' = "go_stats"
  /\ UNCHANGED <<sRunning, elRunning, statsPc, stopPc, SrvFrame, lfVars>>

\* go s.statsWorker()
StartGoStats ==
  /\ startPc = "go_stats"
  /\ statsPc' = "loop"
  /\ startPc' = "run"
  /\ UNCHANGED <<sRunning, elRunning, relPc, stopPc, SrvFrame, lfVars>>

\* eventLoop.Run: el.running = true
RunSetRunning ==
  /\ startPc = "run"
  /\ elRunning' = TRUE
  /\ startPc' = "test"
  /\ UNCHANGED <<sRunning, relPc, statsPc, stopPc, SrvFrame, lfVars>>

\* for el.running { ... }; return nil
RunTest ==
  /\ startPc = "test"
  /\ startPc' = IF elRunning THEN "wait" ELSE "returned"
  /\ UNCHANGED <<sRunning, elRunning, relPc, statsPc, stopPc, SrvFrame, lfVars>>

\* el.running is a plain bool written by Stop on another goroutine with no
\* synchronisation: the loop's read may still yield the true that Run
\* itself wrote.
RunTestStale ==
  /\ startPc = "test"
  /\ ~elRunning
  /\ startPc' = "wait"
  /\ UNCHANGED <<sRunning, elRunning, relPc, statsPc, stopPc, SrvFrame, lfVars>>

\* syscall.EpollWait(..., 1000) returns and the events are processed
RunWait ==
  /\ startPc = "wait"
  /\ startPc' = "test"
  /\ UNCHANGED <<sRunning, elRunning, relPc, statsPc, stopPc, SrvFrame, lfVars>>

\* reliabilityWorker: for atomic.LoadInt32(&s.running) == 1 { select ... }
RelTest ==
  /\ relPc = "loop"
  /\ IF sRunning = 1 THEN relPc' \in {"tick", "sleep"} ELSE relPc' = "done"
  /\ UNCHANGED <<sRunning, elRunning, startPc, statsPc, stopPc, SrvFrame, lfVars>>

\* default: time.Sleep(100 * time.Microsecond)
RelSleep ==
  /\ relPc = "sleep"
  /\ relPc' = "loop"
  /\ UNCHANGED <<sRunning, elRunning, startPc, statsPc, stopPc, SrvFrame, lfVars>>

\* case <-ticker.C: s.reliability.GetTimedOutPackets() is entered
RelCall ==
  /\ relPc = "tick"
  /\ ScanStartBody
  /\ relPc' = "scan"
  /\ UNCHANGED <<sRunning, elRunning, startPc, statsPc, stopPc, SrvFrame>>

\* GetTimedOutPackets returns
RelReturn ==
  /\ relPc = "scan"
  /\ ScanEndBody
  /\ relPc' = "loop"
  /\ UNCHANGED <<sRunning, elRunning, startPc, statsPc, stopPc, SrvFrame>>

\* statsWorker: for atomic.LoadInt32(&s.running) == 1 { select ... }
StatsTest ==
  /\ statsPc = "loop"
  /\ statsPc' = IF sRunning = 1 THEN "select" ELSE "done"
  /\ UNCHANGED <<sRunning, elRunning, startPc, relPc, stopPc, SrvFrame, lfVars>>

\* s.logStats() or time.Sleep(1 * time.Second)
StatsSelect ==
  /\ statsPc = "select"
  /\ statsPc' = "loop"
  /\ UNCHANGED <<sRunning, elRunning, startPc, relPc, stopPc, SrvFrame, lfVars>>

\* Stop: atomic.StoreInt32(&s.running, 0)
StopStore ==
  /\ stopPc = "idle"
  /\ sRunning' = 0
  /\ stopPc' = "stored"
  /\ UNCHANGED <<elRunning, startPc, relPc, statsPc, SrvFrame, lfVars>>

\* s.eventLoop.Stop(): el.running = false
StopEventLoop ==
  /\ stopPc = "stored"
  /\ elRunning' = FALSE
  /\ stopPc' = "done"
  /\ UNCHANGED <<sRunning, startPc, relPc, statsPc, SrvFrame, lfVars>>

StartSteps ==
  \/ StartStore \/ StartAddSocket \/ StartGoReliability \/ StartGoStats
  \/ RunSetRunning \/ RunTest \/ RunWait
ReliabilityWorker ==
  \/ RelTest \/ RelSleep \/ RelCall \/ RelReturn
  \/ (relPc = "scan" /\ (ScanLoad \/ ScanVisit))
StatsWorker == StatsTest \/ StatsSelect
StopSteps == StopStore \/ StopEventLoop

\* One goroutine calls Start, another calls Stop once Start has been called;
\* a sender hands DATA packets to the engine meanwhile.
NextServer ==
  \/ StartSteps
  \/ RunTestStale
  \/ ReliabilityWorker
  \/ StatsWorker
  \/ (startPc # "idle" /\ StopSteps)
  \/ \E seq \in LFSeqs : packetsSent < MaxSrvEntries /\ LFSendPacket(DATA_PACKET, seq)

SpecServer == Init /\ [][NextServer]_vars

\* Every goroutine that can take a step eventually takes one.
SpecServerLive ==
  /\ SpecServer
  /\ WF_vars(StartSteps)
  /\ WF_vars(ReliabilityWorker)
  /\ WF_vars(StatsWorker)
  /\ WF_vars(startPc # "idle" /\ StopSteps)

\* Callers of the sequence counters of both engines, in any order.
NextSeq ==
  \/ (Len(seqLog) < MaxSeqCalls /\ GetNextSeqNum)
  \/ NextSeqNum
  \/ (Len(lfSeqLog) < MaxSeqCalls /\ LFGetNextSeqNum)

SpecSeq == Init /\ [][NextSeq]_vars

\* ======================================= both engines, the same calls
\* One caller hands every inbound DATA packet to both engines and drains
\* both with GetOrderedPackets.
Caller == "r1"

BothReceivePacket(seq) ==
  /\ RecvReadSizeBody(Caller, seq)
  /\ LFReceivePacketBody(DATA_PACKET, seq)
  /\ UNCHANGED <<sendVars, now, dataSends, issued, seqVars, srvVars, pktVars, tblVars, lfAckVars, flowVars, winVars, lockVars, queueVars, lfTrackVars>>

BothGetOrderedPackets ==
  /\ rpc[Caller] = "idle"
  /\ GetOrderedPacketsBody
  /\ LFGetOrderedPacketsBody
  /\ UNCHANGED <<sendVars, now, dataSends, issued, seqVars, srvVars, pktVars, tblVars, lfAckVars, flowVars, winVars, lockVars, queueVars, lfTrackVars>>

NextBothRecv ==
  \/ \E seq \in RecvSeqs : packetsRecv < MaxLFRecv /\ BothReceivePacket(seq)
  \/ RecvCheckSize(Caller)
  \/ RecvCheckDup(Caller)
  \/ RecvMark(Caller)
  \/ RecvInsert(Caller)
  \/ BothGetOrderedPackets

SpecBothRecv == Init /\ [][NextBothRecv]_vars

\* ====================================================== claims, receive side
\* C1: in the lock-guarded engine the concatenation of all lists returned by
\* GetOrderedPackets is the run InitNextExpectedSeq, +1, +2, ... in increasing
\* order without gaps; a packet is returned only after every sequence number
\* from the initial next-expected value up to its own has been received; and
\* nextExpectedSeq has advanced by exactly the number of packets returned.
C1_OrderedRun ==
  /\ \A i \in 1..Len(delivered) :
       /\ delivered[i] = (InitNextExpectedSeq + i - 1) % SeqMod
       /\ \A k \in InitNextExpectedSeq..delivered[i] : k \in receivedSeqs
  /\ \A i \in 1..(Len(delivered) - 1) : delivered[i] < delivered[i + 1]
  /\ nextExpectedSeq = (InitNextExpectedSeq + Len(delivered)) % SeqMod

\* A packet beyond a gap is withheld while earlier ones were already released.
C1_Witness ==
  /\ Len(delivered) >= 1
  /\ \E s \in orderingBuffer : s > nextExpectedSeq
  /\ nextExpectedSeq \notin orderingBuffer

C3_Original ==
  /\ \A i, j \in 1..Len(lfDelivered) : i # j => lfDelivered[i] # lfDelivered[j]
  /\ (ret.op = "LFReceivePacket" /\ ret.type = DATA_PACKET /\ ret.again)
       => ret.val = FALSE

\* C4 (as stated): the scan of GetTimedOutPackets never selects an entry for
\* retransmission (appends its packet, raises its retry count, halves the
\* congestion window) at a moment when HandleAck has already removed that
\* entry from the tracker.
C4_Original ==
  [][(ScanVisit /\ timedOut' # timedOut) => InTable(scanValue)]_vars

\* ========================================================= claims, send side
AckFrame == <<unackedPackets, rttSamples, averageRTT, retransmissionTimeout,
              congestionWindow, ssthresh>>

C6_Original ==
  [][GetTimedOutPackets =>
       \A q \in ret'.val :
         /\ unackedPackets'[q].sent = now
         /\ unackedPackets'[q].retry = unackedPackets[q].retry + 1]_vars

\* The entry's timeout has elapsed: more than the current retransmission
\* timeout has passed since its send time.
Due(e) == heap[e] # NoLFEntry /\ now - heap[e].SendTime > timeoutBase

C8_WindowGate ==
  [][(CanSendReturn /\ csCount = NumUnacked) =>
       (ret'.val <=> (NumUnacked < windowSize))]_vars

\* With a window of 3 and three packets outstanding the call has returned false.
C8_Witness ==
  /\ ret.op = "CanSendPacket"
  /\ ret.val = FALSE
  /\ windowSize = 3
  /\ NumUnacked = 3

\* C9 (as stated): CanSendPacket never returns true in a state where the
\* number of unacknowledged packets is greater than or equal to the current
\* congestion window.
C9_Original ==
  [][(CanSendReturn /\ csCount = NumUnacked /\ NumUnacked >= congestionWindow) =>
       (ret'.val = FALSE)]_vars

\* C10 (as stated): HandleAck for an ack_number whose sequence number has no
\* tracked entry returns an error when that sequence number lies beyond every
\* sequence number GetNextSeqNum has issued, and success otherwise; tracker,
\* RTT and congestion state stay unchanged.  Stated for engines that have
\* issued at least one sequence number.
BeyondIssued(seq) == \A i \in issued : seq > i

C10_Original ==
  [][\A ack \in AckNums :
       (HandleAck(ack, TRUE) /\ ~Tracked(Pred32(ack)) /\ issued # {}) =>
         /\ (ret'.err # "nil") <=> BeyondIssued(Pred32(ack))
         /\ UNCHANGED AckFrame]_vars

\* ======================================= both engines, the same sender calls
\* updateCongestionWindow(false), the loss branch on its own.
LFLossBody ==
  /\ congWindow' = ShrunkWindow(congWindow)
  /\ UNCHANGED <<unackedTable, heap, rttEstimate, timeoutBase, packetsSent,
                 packetsLost, packetsRetr, scanVars, ackVars, lastReport>>

\* the caller is idle for ten seconds
Sleep ==
  /\ now' = now + LongWait
  /\ UNCHANGED <<lfVars, recvVars, sendVars, dataSends, issued, seqVars, srvVars, pktVars, tblVars, lfAckVars, flowVars, winVars, lockVars, queueVars, ret>>

\* Every call is made on the locked engine and on the lock-free engine; a
\* call starts when the previous one has returned on both.
\* handleDataPacket: the acknowledgment of a DATA packet carries SeqNum + 1
AckNumOf(seq) == Succ32(seq)

BothSendPacket(type, seq) ==
  /\ ackPc = "idle"
  /\ SendPacketBody(type, seq)
  /\ LFSendPacketBody(type, seq)
  /\ UNCHANGED <<recvVars, lfRecvVars, flowVars, winVars, lockVars, queueVars>>

BothHandleAck(ack, hasAck) ==
  /\ HandleAckBody(ack, hasAck)
  /\ LFHandleAckRemoveBody(ack, hasAck)
  /\ UNCHANGED <<recvVars, lfRecvVars, lfAckVars, flowVars, winVars, lockVars, queueVars>>

BothPacketLoss ==
  /\ ackPc = "idle"
  /\ SimulatePacketLossBody
  /\ LFLossBody
  /\ UNCHANGED <<recvVars, lfRecvVars>>

NextBoth ==
  \/ (now < MaxBothTime /\ ackPc = "idle" /\ Tick)
  \/ (now < MaxBothTime /\ ackPc = "idle" /\ Sleep)
  \/ \E type \in PacketTypes, seq \in SendSeqs :
       /\ type = DATA_PACKET => dataSends < MaxBothSends /\ packetsSent < MaxEntries
       /\ BothSendPacket(type, seq)
  \/ \E seq \in SendSeqs, hasAck \in BOOLEAN : BothHandleAck(Succ32(seq), hasAck)
  \/ LFHandleAckRtt
  \/ LFHandleAckTimeout
  \/ LFHandleAckWindow
  \/ BothPacketLoss

SpecBoth == Init /\ [][NextBoth]_vars

\* The same, every acknowledgment being the one of a packet that was sent
\* and is still unacknowledged.
NextBothMatching ==
  \/ (now < MaxBothTime /\ ackPc = "idle" /\ Tick)
  \/ \E seq \in SendSeqs :
       /\ dataSends < MaxBothSends /\ packetsSent < MaxEntries
       /\ BothSendPacket(DATA_PACKET, seq)
  \/ \E seq \in TrackedSeqs : BothHandleAck(Succ32(seq), TRUE)
  \/ LFHandleAckRtt
  \/ LFHandleAckTimeout
  \/ LFHandleAckWindow
  \/ BothPacketLoss

SpecBothMatching == Init /\ [][NextBothMatching]_vars

\* ============================================= claims, ordering and windows
\* The sequence numbers of S in increasing order (S a run s, s+1, ..., s+k-1).
IsRun(S) == S # {} /\ \E s \in S : S = s..(s + Cardinality(S) - 1)
RunSeq(S) ==
  LET lo == CHOOSE s \in S : \A q \in S : s <= q
  IN [i \in 1..Cardinality(S) |-> lo + i - 1]

\* C11 (as stated): on a freshly constructed lock-guarded engine, once all of
\* s..s+k-1 have arrived (in any order, for any starting sequence number s)
\* and nothing else, one GetOrderedPackets call returns all k of them in
\* increasing order; the spec's example is 503, 501, 502 released as
\* 501, 502, 503.
C11_Original ==
  [][( /\ GetOrderedPackets
       /\ delivered = <<>>
       /\ \A t \in Receivers : rpc[t] = "idle"
       /\ orderingBuffer = receivedSeqs
       /\ IsRun(receivedSeqs) )
       => delivered' = RunSeq(receivedSeqs)]_vars

\* C12 (as stated): for the same sequence of ReceivePacket calls the lock-free
\* engine's GetOrderedPackets has released the same packets in the same order
\* as the lock-guarded engine's.
C12_Original ==
  ret.op = "LFGetOrderedPackets" => lfDelivered = delivered

Max(a, b) == IF a >= b THEN a ELSE b

\* C13: in both engines a loss event takes the congestion window w to
\* max(1, w div 2): strictly lower when w >= 2, still 1 when w = 1.
C13_LossHalves ==
  [][BothPacketLoss =>
       /\ congestionWindow' = Max(1, congestionWindow \div 2)
       /\ congWindow' = Max(1, congWindow \div 2)
       /\ congestionWindow >= 2 => congestionWindow' < congestionWindow
       /\ congWindow >= 2 => congWindow' < congWindow
       /\ congestionWindow = 1 => congestionWindow' = 1
       /\ congWindow = 1 => congWindow' = 1]_vars

C13_Witness ==
  /\ ret.op = "SimulatePacketLoss"
  /\ ret.was >= 2
  /\ congestionWindow < ret.was
  /\ congWindow = 1

\* C14 (as stated): a timeout counts as a detected loss; after a
\* GetTimedOutPackets call of the lock-guarded engine that reports exactly one
\* timed-out packet, the congestion window is max(1, w div 2), w being the
\* window before the call.
C14_Original ==
  [][(GetTimedOutPackets /\ Cardinality(ret'.val) = 1) =>
       congestionWindow' = Max(1, congestionWindow \div 2)]_vars

\* C15: in the lock-guarded engine every acknowledgment that removes an entry
\* takes the congestion window w to w + 1 when w < ssthresh and to
\* w + (1 div w) otherwise; so with w >= 2 and w >= ssthresh the
\* acknowledgment leaves the window as it was.
C15_AckGrowth ==
  [][\A ack \in AckNums :
       (HandleAck(ack, TRUE) /\ Tracked(Pred32(ack))) =>
         /\ congestionWindow' = IF congestionWindow < ssthresh
                                  THEN congestionWindow + 1
                                  ELSE congestionWindow + (1 \div congestionWindow)
         /\ (congestionWindow >= 2 /\ congestionWindow >= ssthresh)
              => congestionWindow' = congestionWindow]_vars

\* An acknowledgment removed an entry at a window of at least 2 and at least
\* ssthresh, and the window is what it was.
C15_Witness ==
  /\ ret.op = "HandleAck"
  /\ ret.existed
  /\ ret.was >= 2
  /\ ret.was >= ssthresh
  /\ congestionWindow = ret.was

\* C16 (as stated): for every sequence of send, matching-acknowledgment and
\* loss events applied to both engines from their initial states, the two
\* engines report the same congestion window after each event.
C16_Original ==
  ackPc = "idle" => congestionWindow = congWindow

\* C17 (as stated): on each acknowledgment that removes an entry the
\* lock-guarded engine sets its RTT estimate to (7 * old + sample) div 8, the
\* sample being the current time minus the entry's send time, and its
\* retransmission timeout to four times the new estimate clamped to
\* [100 ms, 5 s].
C17_Original ==
  [][\A ack \in AckNums :
       (HandleAck(ack, TRUE) /\ Tracked(Pred32(ack))) =>
         /\ averageRTT' =
              (7 * averageRTT + (now - unackedPackets[Pred32(ack)].sent)) \div 8
         /\ retransmissionTimeout' = Clamp(4 * averageRTT', MinTimeout, MaxTimeout)]_vars

\* C18: after any sends and acknowledgments, SetRetransmissionTimeout never
\* being called, the retransmission timeout of either engine lies within
\* [100 ms, 5 s] in every reachable state.
C18_TimeoutInRange ==
  /\ retransmissionTimeout \in MinTimeout..MaxTimeout
  /\ timeoutBase \in LFMinTimeout..LFMaxTimeout

\* An acknowledgment after a ten-second wait has driven both timeouts to the
\* upper end.
C18_Witness ==
  /\ ret.op = "HandleAck"
  /\ ret.existed
  /\ ackPc = "idle"
  /\ retransmissionTimeout = MaxTimeout
  /\ timeoutBase = LFMaxTimeout

\* The returned values start at 1, each is its predecessor plus 1 modulo
\* 2^32, and no two calls less than a full cycle apart return the same value.
Chain(log) ==
  /\ log # <<>> => log[1] = 1
  /\ \A i \in 2..Len(log) : log[i] = Succ32(log[i - 1])
  /\ \A i, j \in 1..Len(log) : (i < j /\ j - i < SeqMod) => log[i] # log[j]

\* C19: in both engines GetNextSeqNum returns 1 on the first call and
\* afterwards the previously returned value plus 1 modulo 2^32, so that under
\* any interleaving of callers no two calls within one cycle return the same
\* value; NextSeqNum of the lock-guarded engine returns the counter without
\* advancing it.
C19_SeqNums ==
  /\ [](Chain(seqLog) /\ Chain(lfSeqLog))
  /\ [][NextSeqNum => (nextSeqNum' = nextSeqNum /\ ret'.val = nextSeqNum)]_vars

\* Both counters have wrapped (2^32 - 1, 0, 1) and NextSeqNum has just been
\* called.
C19_Witness ==
  /\ ret.op = "NextSeqNum"
  /\ Len(seqLog) > SeqMod
  /\ seqLog[SeqMod] = 0
  /\ Len(lfSeqLog) > SeqMod
  /\ lfSeqLog[SeqMod] = 0
  /\ ret.val = nextSeqNum

\* The lock-free table holds an entry of sequence number seq.
LFTracked(seq) ==
  \E b \in Buckets : unackedTable[b] # Nil /\ heap[unackedTable[b]].SeqNum = seq

LFRetryCount(seq) ==
  LET b == CHOOSE c \in Buckets :
             unackedTable[c] # Nil /\ heap[unackedTable[c]].SeqNum = seq
  IN heap[unackedTable[b]].RetryCount

\* C20 (as stated): in both engines SendPacket with a non-DATA packet leaves
\* the unacknowledged tracker and every counter unchanged, and SendPacket
\* with a DATA packet of sequence number s makes s tracked with retry count
\* 0, s staying tracked until an acknowledgment with ack_number s + 1
\* removes it.
C20_Original ==
  [][/\ \A type \in PacketTypes, seq \in SendSeqs :
          BothSendPacket(type, seq) =>
            IF type # DATA_PACKET
              THEN UNCHANGED <<unackedPackets, unackedTable, heap, packetsSent,
                               packetsRecv, packetsLost, packetsRetr>>
              ELSE /\ Tracked(seq)'
                   /\ unackedPackets'[seq].retry = 0
                   /\ LFTracked(seq)'
                   /\ LFRetryCount(seq)' = 0
     /\ \A seq \in SendSeqs :
          /\ (Tracked(seq) /\ ~Tracked(seq)') => BothHandleAck(Succ32(seq), TRUE)
          /\ (LFTracked(seq) /\ ~LFTracked(seq)') => BothHandleAck(Succ32(seq), TRUE)]_vars

\* ============================================================ packets
\* A uint32 is written [hi, lo], its two 16-bit halves; a uint16 and a byte
\* are plain numbers.  Pointer stores and loads are those of a little-endian
\* host.
U32(hi, lo) == [hi |-> hi, lo |-> lo]

htonsNoSwap(host) == host

htons(host) == ((host % 256) * 256) + (host \div 256)

ntohs(network) == ((network % 256) * 256) + (network \div 256)

htonl(host) == U32(((host.lo % 256) * 256) + (host.lo \div 256),
                   ((host.hi % 256) * 256) + (host.hi \div 256))

ntohl(network) == U32(((network.lo % 256) * 256) + (network.lo \div 256),
                      ((network.hi % 256) * 256) + (network.hi \div 256))

\* *(*uint16)(unsafe.Pointer(&buffer[i])) = v, and the read of it
StoreUint16(v) == <<v % 256, v \div 256>>
LoadUint16(b) == b[1] + (256 * b[2])

\* *(*uint32)(unsafe.Pointer(&buffer[i])) = v, and the read of it
StoreUint32(v) == <<v.lo % 256, v.lo \div 256, v.hi % 256, v.hi \div 256>>
LoadUint32(b) == U32(b[3] + (256 * b[4]), b[1] + (256 * b[2]))

\* sum += word, on uint32
Add32(sum, word) ==
  LET lo == sum.lo + word.lo
      hi == sum.hi + word.hi + (lo \div 65536)
  IN U32(hi % 65536, lo % 65536)

\* The word the checksum loop reads at offset i (from 1) of bytes: a whole
\* word through ntohl, the last bytes shifted to the top of a zero word.
ChecksumWord(bytes, i) ==
  IF i + 3 <= Len(bytes)
    THEN ntohl(LoadUint32(SubSeq(bytes, i, i + 3)))
    ELSE LET at(k) == IF i + k <= Len(bytes) THEN bytes[i + k] ELSE 0
         IN U32((at(0) * 256) + at(1), (at(2) * 256) + at(3))

RECURSIVE ChecksumSum(_, _, _)
ChecksumSum(sum, bytes, i) ==
  IF i > Len(bytes) THEN sum
  ELSE ChecksumSum(Add32(sum, ChecksumWord(bytes, i)), bytes, i + 4)

\* for (sum >> 16) > 0 { sum = (sum & 0xFFFF) + (sum >> 16) }
RECURSIVE FoldCarry(_)
FoldCarry(sum) ==
  IF sum.hi > 0
    THEN FoldCarry(LET s == sum.lo + sum.hi IN U32(s \div 65536, s % 65536))
    ELSE sum

calculateChecksum(header, payload) ==
  LET sum == FoldCarry(ChecksumSum(ChecksumSum(U32(0, 0), header, 1), payload, 1))
  IN U32(65535 - sum.hi, 65535 - sum.lo)

NewPacket(packetType, flags, seqNum, ackNum, payload) ==
  LET kept == IF Len(payload) > MAX_PAYLOAD_SIZE
                THEN SubSeq(payload, 1, MAX_PAYLOAD_SIZE) ELSE payload
  IN [Version |-> PROTOCOL_VERSION, Type |-> packetType, Flags |-> flags,
      Length |-> (PACKET_HEADER_SIZE + Len(kept)) % 65536,
      SeqNum |-> seqNum, AckNum |-> ackNum, Checksum |-> U32(0, 0),
      Payload |-> kept]

\* buffer[:12] as Serialize packs it
SerializeHeader(p) ==
  <<((p.Version * 16) % 256) + (p.Type % 16), p.Flags>>
    \o StoreUint16(htons(p.Length))
    \o StoreUint32(htonl(p.SeqNum))
    \o StoreUint32(htonl(p.AckNum))

\* Serialize returns the buffer and leaves the checksum in the packet.
Serialize(p) ==
  LET header == SerializeHeader(p)
      body == [i \in 1 .. (p.Length - PACKET_HEADER_SIZE) |->
                 IF i <= Len(p.Payload) THEN p.Payload[i] ELSE 0]
      sum == calculateChecksum(header, body)
  IN [buffer |-> header \o StoreUint32(htonl(sum)) \o body,
      packet |-> [p EXCEPT !.Checksum = sum]]

DeserializePacket(data) ==
  IF Len(data) < PACKET_HEADER_SIZE
    THEN [err |-> "packet too short", packet |-> NoPacket]
  ELSE
    LET versionType == data[1]
        Length == ntohs(LoadUint16(SubSeq(data, 3, 4)))
        p == [Version |-> (versionType \div 16) % 16,
              Type |-> versionType % 16,
              Flags |-> data[2],
              Length |-> Length,
              SeqNum |-> ntohl(LoadUint32(SubSeq(data, 5, 8))),
              AckNum |-> ntohl(LoadUint32(SubSeq(data, 9, 12))),
              Checksum |-> ntohl(LoadUint32(SubSeq(data, 13, 16))),
              Payload |-> IF Length > PACKET_HEADER_SIZE
                            THEN SubSeq(data, PACKET_HEADER_SIZE + 1, Len(data))
                            ELSE <<>>]
    IN IF p.Length # Len(data)
         THEN [err |-> "packet length mismatch", packet |-> NoPacket]
       ELSE IF p.Version # PROTOCOL_VERSION
         THEN [err |-> "unsupported protocol version", packet |-> NoPacket]
       ELSE IF p.Checksum # calculateChecksum(SubSeq(data, 1, 12),
                                               SubSeq(data, PACKET_HEADER_SIZE + 1, Len(data)))
         THEN [err |-> "checksum mismatch", packet |-> NoPacket]
       ELSE [err |-> "nil", packet |-> p]

\* ---- inputs
FlagBytes == {0, 9, 127, 255}
SeqNumbers == {U32(0, 1), U32(258, 772), U32(61056, 0), U32(65535, 65535)}
AckNumbers == {U32(0, 0), U32(32768, 1)}
\* Payloads of every length to MaxPayloadLen: one byte repeated, or bytes
\* that differ from place to place.
PayloadsOfLen(n) == {[i \in 1 .. n |-> 171], [i \in 1 .. n |-> (i * 50) % 256]}
Payloads == UNION {PayloadsOfLen(n) : n \in 0 .. MaxPayloadLen}

PktFrame == <<recvVars, sendVars, lfVars, now, dataSends, issued, seqVars, srvVars, tblVars,
             lfAckVars, flowVars, winVars, lockVars, queueVars, ret>>

\* data := NewPacket(...).Serialize(); one packet is built in a run
SerializeNew(packetType, flags, seqNum, ackNum, payload) ==
  LET s == Serialize(NewPacket(packetType, flags, seqNum, ackNum, payload))
  IN /\ orig.packet = NoPacket
     /\ perr = "none"
     /\ wire' = s.buffer
     /\ orig' = [packet |-> s.packet,
                 input |-> [Type |-> packetType, Flags |-> flags, SeqNum |-> seqNum,
                            AckNum |-> ackNum, Payload |-> payload],
                 changes |-> {}, flipped |-> 0]
     /\ parsed' = NoPacket
     /\ perr' = "none"
     /\ UNCHANGED PktFrame

\* data[0] = (0x02 << 4) | (DATA_PACKET & 0x0F)
WrongVersion ==
  /\ perr = "none" /\ Len(wire) >= 1 /\ "version" \notin orig.changes /\ orig.flipped = 0
  /\ wire' = [wire EXCEPT ![1] = ((2 * 16) % 256) + (DATA_PACKET % 16)]
  /\ orig' = [orig EXCEPT !.changes = @ \cup {"version"}]
  /\ UNCHANGED <<parsed, perr, PktFrame>>

\* shortData := make([]byte, len(data)-2); copy(shortData, data)
ShortData ==
  /\ perr = "none" /\ Len(wire) >= 2 /\ "short" \notin orig.changes /\ orig.flipped = 0
  /\ wire' = SubSeq(wire, 1, Len(wire) - 2)
  /\ orig' = [orig EXCEPT !.changes = @ \cup {"short"}]
  /\ UNCHANGED <<parsed, perr, PktFrame>>

\* make([]byte, PACKET_HEADER_SIZE-1)
TooShort ==
  /\ perr = "none" /\ "zeroes" \notin orig.changes /\ orig.flipped = 0
  /\ wire' = [i \in 1 .. (PACKET_HEADER_SIZE - 1) |-> 0]
  /\ orig' = [orig EXCEPT !.changes = @ \cup {"zeroes"}]
  /\ UNCHANGED <<parsed, perr, PktFrame>>

\* corrupted[PACKET_HEADER_SIZE] = ^corrupted[PACKET_HEADER_SIZE]
CorruptPayload ==
  /\ perr = "none" /\ Len(wire) > PACKET_HEADER_SIZE /\ "payload" \notin orig.changes /\ orig.flipped = 0
  /\ wire' = [wire EXCEPT ![PACKET_HEADER_SIZE + 1] = 255 - @]
  /\ orig' = [orig EXCEPT !.changes = @ \cup {"payload"}]
  /\ UNCHANGED <<parsed, perr, PktFrame>>

\* corrupted[i] = ^corrupted[i], for the byte at place i (counted from 1)
CorruptByte(i) ==
  /\ perr = "none" /\ orig.changes = {} /\ orig.packet # NoPacket
  /\ i \in 1 .. Len(wire)
  /\ wire' = [wire EXCEPT ![i] = 255 - @]
  /\ orig' = [orig EXCEPT !.changes = {"flip"}, !.flipped = i]
  /\ UNCHANGED <<parsed, perr, PktFrame>>

\* p, err := DeserializePacket(data)
Deserialize ==
  /\ perr = "none"
  /\ LET r == DeserializePacket(wire)
     IN /\ parsed' = r.packet
        /\ perr' = r.err
  /\ UNCHANGED <<wire, orig, PktFrame>>

NextPacket ==
  \/ \E packetType \in PacketTypes, flags \in FlagBytes, seqNum \in SeqNumbers,
        ackNum \in AckNumbers, payload \in Payloads :
       SerializeNew(packetType, flags, seqNum, ackNum, payload)
  \/ WrongVersion
  \/ ShortData
  \/ TooShort
  \/ CorruptPayload
  \/ \E i \in 1 .. (PACKET_HEADER_SIZE + MAX_PAYLOAD_SIZE) : CorruptByte(i)
  \/ Deserialize

SpecPacket == Init /\ [][NextPacket]_vars

\* ===================== ReliabilityLayer: CanSendPacket, then SendPacket
\* Senders that call SendPacket only after their own CanSendPacket call has
\* returned true.
SenderFrame == <<recvVars, lfVars, nextSeqNum, unackedPackets, windowSize, congestionWindow,
                 ssthresh, rttSamples, averageRTT, retransmissionTimeout, cspc, csCount,
                 now, dataSends, issued, seqVars, srvVars, pktVars, tblVars, lfAckVars, winVars, lockVars, queueVars, ret>>

\* CanSendPacket: unackedCount := len(r.unackedPackets) under unackedMutex.RLock
SenderReadCount(t) ==
  /\ senders[t].pc = "idle"
  /\ senders' = [senders EXCEPT ![t] = [pc |-> "have_count", count |-> NumUnacked]]
  /\ UNCHANGED SenderFrame

\* CanSendPacket: windowSize under windowMutex.RLock;
\* return uint32(unackedCount) < windowSize
SenderCanSend(t) ==
  /\ senders[t].pc = "have_count"
  /\ senders' = [senders EXCEPT ![t] =
       [pc |-> IF WindowOpen(senders[t].count, windowSize) THEN "may_send" ELSE "idle",
        count |-> 0]]
  /\ UNCHANGED SenderFrame

\* SendPacket with a DATA packet, CanSendPacket having returned true
SenderSend(t, seq) ==
  /\ senders[t].pc = "may_send"
  /\ SendPacketBody(DATA_PACKET, seq)
  /\ senders' = [senders EXCEPT ![t].pc = "idle"]
  /\ UNCHANGED <<lfVars, recvVars, winVars, lockVars, queueVars>>

\* The window is configured before the first packet is sent.
NextSenders ==
  \/ \E size \in 1..MaxWindowCfg :
       /\ dataSends = 0 /\ \A t \in Senders : senders[t].pc = "idle"
       /\ SetWindowSize(size)
  \/ \E t \in Senders : SenderReadCount(t)
  \/ \E t \in Senders : SenderCanSend(t)
  \/ \E t \in Senders, seq \in SendSeqs : dataSends < MaxSends /\ SenderSend(t, seq)
  \/ \E seq \in SendSeqs : HandleAck(AckNumOf(seq), TRUE)

SpecSenders == Init /\ [][NextSenders]_vars

\* ============================ LockFreeReliabilityLayer.HandleAck, concurrent
\* Several goroutines inside HandleAck, one atomic operation per step.
LFAckFrame == <<recvVars, sendVars, lfRecvVars, now, dataSends, issued, seqVars, srvVars, pktVars, tblVars, flowVars, winVars, lockVars, queueVars, ret>>
LFAckCallFrame == <<recvVars, lfRecvVars, flowVars, winVars, lockVars, queueVars>>
LFAckShared == <<unackedTable, heap, congWindow, rttEstimate, timeoutBase>>
LFAckRest == <<packetsSent, packetsLost, packetsRetr, scanVars, ackVars, lastReport>>

\* atomic.CompareAndSwap*: the swap happens when the word still has the value loaded
CasAlways(current, expected) == TRUE

CasSucceeds(current, expected) == current = expected

\* Each caller hands one acknowledgment to both engines: the lock-guarded
\* HandleAck, which runs under unackedMutex from its first read to its
\* return, and then the lock-free one, which begins with
\* if !ackPacket.HasAck() { return false }; seqNum := ackPacket.AckNum - 1.
AckCall(t, ack, hasAck) ==
  /\ ackers[t].pc = "idle"
  /\ ackers[t].result = "none"
  /\ HandleAckBody(ack, hasAck)
  /\ ackers' = [ackers EXCEPT ![t] =
       IF hasAck THEN [IdleAcker EXCEPT !.pc = "load", !.ack = ack]
                 ELSE [IdleAcker EXCEPT !.ack = ack, !.result = "false"]]
  /\ UNCHANGED <<LFAckShared, LFAckRest, LFAckCallFrame>>

\* Remove: current := atomic.LoadPointer(&ht.buckets[hash]); nil returns nil
\* and HandleAck returns false
AckLoad(t) ==
  /\ ackers[t].pc = "load"
  /\ LET current == unackedTable[Hash(Pred32(ackers[t].ack))]
     IN ackers' = [ackers EXCEPT ![t] =
          IF current = Nil THEN [IdleAcker EXCEPT !.ack = ackers[t].ack, !.result = "false"]
                           ELSE [@ EXCEPT !.pc = "cas", !.cur = current]]
  /\ UNCHANGED <<LFAckShared, LFAckRest, LFAckFrame>>

\* Remove: atomic.CompareAndSwapPointer(&ht.buckets[hash], current, nil)
AckCas(t) ==
  /\ ackers[t].pc = "cas"
  /\ LET hash == Hash(Pred32(ackers[t].ack))
     IN IF CasSucceeds(unackedTable[hash], ackers[t].cur)
          THEN /\ unackedTable' = [unackedTable EXCEPT ![hash] = Nil]
               /\ ackers' = [ackers EXCEPT ![t].pc = "sample"]
          ELSE /\ ackers' = [ackers EXCEPT ![t].pc = "load", ![t].cur = Nil]
               /\ UNCHANGED unackedTable
  /\ UNCHANGED <<heap, congWindow, rttEstimate, timeoutBase, LFAckRest, LFAckFrame>>

\* now := time.Now().UnixNano(); rtt := now - entry.SendTime
AckSample(t) ==
  /\ ackers[t].pc = "sample"
  /\ ackers' = [ackers EXCEPT ![t].pc = "rtt_load",
                              ![t].sample = now - heap[ackers[t].cur].SendTime]
  /\ UNCHANGED <<LFAckShared, LFAckRest, LFAckFrame>>

\* updateRTTAtomic: oldRTT := atomic.LoadUint64(&rf.rttEstimate)
AckRttLoad(t) ==
  /\ ackers[t].pc = "rtt_load"
  /\ ackers' = [ackers EXCEPT ![t].pc = "rtt_cas", ![t].old = rttEstimate,
                              ![t].new = SmoothedRTT(rttEstimate, ackers[t].sample)]
  /\ UNCHANGED <<LFAckShared, LFAckRest, LFAckFrame>>

\* updateRTTAtomic: atomic.CompareAndSwapUint64(&rf.rttEstimate, oldRTT, newRTT)
AckRttCas(t) ==
  /\ ackers[t].pc = "rtt_cas"
  /\ IF CasSucceeds(rttEstimate, ackers[t].old)
       THEN /\ rttEstimate' = ackers[t].new
            /\ ackers' = [ackers EXCEPT ![t].pc = "store"]
       ELSE /\ ackers' = [ackers EXCEPT ![t].pc = "rtt_load"]
            /\ UNCHANGED rttEstimate
  /\ UNCHANGED <<unackedTable, heap, congWindow, timeoutBase, LFAckRest, LFAckFrame>>

\* updateRTTAtomic: atomic.StoreUint64(&rf.timeoutBase, newTimeout)
AckStore(t) ==
  /\ ackers[t].pc = "store"
  /\ timeoutBase' = TimeoutFor(ackers[t].new)
  /\ ackers' = [ackers EXCEPT ![t].pc = "win_load"]
  /\ UNCHANGED <<unackedTable, heap, congWindow, rttEstimate, LFAckRest, LFAckFrame>>

\* updateCongestionWindow(true): oldWindow := atomic.LoadUint32(&rf.congWindow)
AckWinLoad(t) ==
  /\ ackers[t].pc = "win_load"
  /\ ackers' = [ackers EXCEPT ![t].pc = "win_cas", ![t].old = congWindow,
                              ![t].new = GrownWindow(congWindow, LFWindowSize)]
  /\ UNCHANGED <<LFAckShared, LFAckRest, LFAckFrame>>

\* updateCongestionWindow(true): the compare-and-swap of congWindow; return true
AckWinCas(t) ==
  /\ ackers[t].pc = "win_cas"
  /\ IF CasSucceeds(congWindow, ackers[t].old)
       THEN /\ congWindow' = ackers[t].new
            /\ ackers' = [ackers EXCEPT ![t] = [IdleAcker EXCEPT !.ack = ackers[t].ack, !.result = "true"]]
            /\ heap' = Release(heap, ackers[t].cur,
                               \E u \in Ackers \ {t} : ackers[u].cur = ackers[t].cur)
       ELSE /\ ackers' = [ackers EXCEPT ![t].pc = "win_load"]
            /\ UNCHANGED <<congWindow, heap>>
  /\ UNCHANGED <<unackedTable, rttEstimate, timeoutBase, LFAckRest, LFAckFrame>>

\* Senders, concurrent callers of HandleAck, and the clock.
LFAckSteps ==
  \/ (now < LongWait /\ Sleep)
  \/ \E t \in Ackers, seq \in SendSeqs, hasAck \in BOOLEAN : AckCall(t, AckNumOf(seq), hasAck)
  \/ \E t \in Ackers : AckLoad(t)
  \/ \E t \in Ackers : AckCas(t)
  \/ \E t \in Ackers : AckSample(t)
  \/ \E t \in Ackers : AckRttLoad(t)
  \/ \E t \in Ackers : AckRttCas(t)
  \/ \E t \in Ackers : AckStore(t)
  \/ \E t \in Ackers : AckWinLoad(t)
  \/ \E t \in Ackers : AckWinCas(t)

\* two callers acknowledge while up to MaxEntries packets are sent
NextLFAck ==
  \/ \E seq \in SendSeqs :
       /\ dataSends < MaxBothSends /\ packetsSent < MaxEntries
       /\ BothSendPacket(DATA_PACKET, seq)
  \/ LFAckSteps

SpecLFAck == Init /\ [][NextLFAck]_vars

\* two callers acknowledge while up to MaxAckEntries packets are sent
NextLFAckSame ==
  \/ \E seq \in SendSeqs :
       /\ dataSends < MaxAckEntries /\ packetsSent < MaxAckEntries
       /\ BothSendPacket(DATA_PACKET, seq)
  \/ LFAckSteps

SpecLFAckSame == Init /\ [][NextLFAckSame]_vars

\* ================================================ LockFreeHashTable
\* uint64 arithmetic, the 2^64 modulus scaled down to Uint64Mod (a power of
\* two, so that size - 1 at size 0 is the word of all ones).
RECURSIVE BitAnd(_, _)
BitAnd(a, b) ==
  IF a = 0 \/ b = 0 THEN 0
  ELSE ((a % 2) * (b % 2)) + (2 * BitAnd(a \div 2, b \div 2))

TableSizes == 0 .. MaxTableSize
TableKeys == 0 .. (Uint64Mod - 1)
TableValues == {1, 2}

TblFrame == <<recvVars, sendVars, lfVars, now, dataSends, issued, seqVars, srvVars, pktVars,
             lfAckVars, flowVars, winVars, lockVars, queueVars, ret>>

\* the test NewLockFreeHashTable makes on its size
SizeRejected(size) == BitAnd(size, (size + Uint64Mod - 1) % Uint64Mod) # 0

NewLockFreeHashTable(size) ==
  /\ ht.state = "none"
  /\ IF SizeRejected(size)
       THEN ht' = [ht EXCEPT !.state = "panic", !.size = size,
                             !.result = "Hash table size must be power of 2"]
       ELSE ht' = [state |-> "built", size |-> size,
                   mask |-> (size + Uint64Mod - 1) % Uint64Mod,
                   buckets |-> [i \in 1 .. size |-> 0],
                   result |-> "built"]
  /\ UNCHANGED TblFrame

\* Insert: the bucket is key & mask; a filled bucket gives false, an empty
\* one takes the value.  An index past the buckets is a runtime panic.
TableInsert(key, value) ==
  /\ ht.state = "built"
  /\ LET hash == BitAnd(key, ht.mask)
     IN IF hash >= Len(ht.buckets)
          THEN ht' = [ht EXCEPT !.state = "crashed", !.result = "index out of range"]
        ELSE IF ht.buckets[hash + 1] # 0
          THEN ht' = [ht EXCEPT !.result = "false"]
        ELSE ht' = [ht EXCEPT !.buckets[hash + 1] = value, !.result = "true"]
  /\ UNCHANGED TblFrame

\* Remove: empties the bucket key & mask and returns what it held.
TableRemove(key) ==
  /\ ht.state = "built"
  /\ LET hash == BitAnd(key, ht.mask)
     IN IF hash >= Len(ht.buckets)
          THEN ht' = [ht EXCEPT !.state = "crashed", !.result = "index out of range"]
        ELSE IF ht.buckets[hash + 1] = 0
          THEN ht' = [ht EXCEPT !.result = "nil"]
        ELSE ht' = [ht EXCEPT !.buckets[hash + 1] = 0, !.result = "removed"]
  /\ UNCHANGED TblFrame

\* ForEach: visits buckets 0 .. size-1, calling fn on the filled ones.
TableForEach ==
  /\ ht.state = "built"
  /\ ht' = [ht EXCEPT !.result =
              IF \E i \in 1 .. ht.size : ht.buckets[i] # 0 THEN "visited" ELSE "empty"]
  /\ UNCHANGED TblFrame

NextTable ==
  \/ \E size \in TableSizes : NewLockFreeHashTable(size)
  \/ \E key \in TableKeys, value \in TableValues : TableInsert(key, value)
  \/ \E key \in TableKeys : TableRemove(key)
  \/ TableForEach

SpecTable == Init /\ [][NextTable]_vars

\* ============================== congestion windows: acknowledgments and losses
WinFrameRest == <<recvVars, lfRecvVars, nextSeqNum, unackedPackets, windowSize,
              rttSamples, averageRTT, retransmissionTimeout, cspc, csCount,
              unackedTable, heap, rttEstimate, timeoutBase, packetsSent, packetsLost,
              packetsRetr, scanVars, ackVars, lastReport, now, dataSends, issued,
              seqVars, srvVars, pktVars, tblVars, lfAckVars, flowVars, lockVars, queueVars, ret>>
WinFrame == <<WinFrameRest, ssthresh>>

\* handleSuccessfulAck, under congestionMutex
handleSuccessfulAck ==
  /\ congestionWindow' = AckedWindow(congestionWindow, ssthresh)
  /\ UNCHANGED <<WinFrame, congWindow, winVars, lockVars, queueVars>>

\* SimulatePacketLoss, under congestionMutex
simulatePacketLoss ==
  /\ ssthresh' = HalvedWindow(congestionWindow)
  /\ congestionWindow' = HalvedWindow(congestionWindow)
  /\ UNCHANGED <<WinFrameRest, congWindow, winVars, lockVars, queueVars>>

\* updateCongestionWindow(success): oldWindow := atomic.LoadUint32(&rf.congWindow),
\* on entry and again after a failed compare-and-swap
WinLoad(t, success) ==
  /\ \/ updaters[t].pc = "idle"
     \/ updaters[t].pc = "retry" /\ success = updaters[t].success
  /\ updaters' = [updaters EXCEPT ![t] = [pc |-> "loaded", success |-> success,
                                          old |-> congWindow]]
  /\ UNCHANGED <<WinFrame, congestionWindow, congWindow>>

\* newWindow from oldWindow, then atomic.CompareAndSwapUint32(&rf.congWindow, ...)
WinCas(t) ==
  LET u == updaters[t]
      new == IF u.success THEN GrownWindow(u.old, LFWindowSize) ELSE ShrunkWindow(u.old)
  IN /\ u.pc = "loaded"
     /\ IF CasSucceeds(congWindow, u.old)
        THEN /\ congWindow' = new
             /\ updaters' = [updaters EXCEPT ![t] = [pc |-> "idle", success |-> FALSE,
                                                     old |-> 0]]
        ELSE /\ updaters' = [updaters EXCEPT ![t].pc = "retry", ![t].old = 0]
             /\ UNCHANGED congWindow
     /\ UNCHANGED <<WinFrame, congestionWindow>>

NextWindow ==
  \/ handleSuccessfulAck
  \/ simulatePacketLoss
  \/ \E t \in Updaters, success \in BOOLEAN : WinLoad(t, success)
  \/ \E t \in Updaters : WinCas(t)

SpecWindow == Init /\ [][NextWindow]_vars

\* ============================== ReliabilityLayer: the mutexes of each call
LockFrame == <<recvVars, sendVars, lfVars, now, dataSends, issued, seqVars, srvVars,
               pktVars, tblVars, lfAckVars, flowVars, winVars, queueVars, ret>>

Lock(m) == [k |-> "Lock", m |-> m]
Unlock(m) == [k |-> "Unlock", m |-> m]
RLock(m) == [k |-> "RLock", m |-> m]
RUnlock(m) == [k |-> "RUnlock", m |-> m]

\* the mutex operations of each call, in program order, one sequence per path
GetNextSeqNumPath == <<Lock("seqMutex"), Unlock("seqMutex")>>
SendPacketDataPath == <<Lock("unackedMutex"), Unlock("unackedMutex")>>
SendPacketOtherPath == <<>>
HandleAckNoAckPath == <<>>
HandleAckUnknownPath == <<Lock("unackedMutex"), Unlock("unackedMutex")>>
\* updateRTT and handleSuccessfulAck run while unackedMutex is held
HandleAckFoundPath ==
  <<Lock("unackedMutex"), Lock("rttMutex"), Unlock("rttMutex"),
    Lock("congestionMutex"), Unlock("congestionMutex"), Unlock("unackedMutex")>>
GetTimedOutPacketsPath == <<RLock("unackedMutex"), RUnlock("unackedMutex")>>
ReceivePacketOverflowPath == <<RLock("orderingMutex"), RUnlock("orderingMutex")>>
ReceivePacketDuplicatePath ==
  <<RLock("orderingMutex"), RUnlock("orderingMutex"),
    RLock("receivedMutex"), RUnlock("receivedMutex")>>
ReceivePacketNewPath ==
  <<RLock("orderingMutex"), RUnlock("orderingMutex"),
    RLock("receivedMutex"), RUnlock("receivedMutex"),
    Lock("receivedMutex"), Unlock("receivedMutex"),
    Lock("orderingMutex"), Unlock("orderingMutex")>>
GetOrderedPacketsPath == <<Lock("orderingMutex"), Unlock("orderingMutex")>>
CanSendPacketPath ==
  <<RLock("unackedMutex"), RUnlock("unackedMutex"),
    RLock("windowMutex"), RUnlock("windowMutex")>>
LossTakesTracker ==
  <<Lock("congestionMutex"), RLock("unackedMutex"), RUnlock("unackedMutex"),
    Unlock("congestionMutex")>>
SimulatePacketLossPath == <<Lock("congestionMutex"), Unlock("congestionMutex")>>

Paths == {"GetNextSeqNum", "SendPacket data", "SendPacket other", "HandleAck no ack",
          "HandleAck unknown", "HandleAck found", "GetTimedOutPackets",
          "ReceivePacket overflow", "ReceivePacket duplicate", "ReceivePacket new",
          "GetOrderedPackets", "CanSendPacket", "SimulatePacketLoss"}

PathSteps(path) ==
  CASE path = "GetNextSeqNum" -> GetNextSeqNumPath
    [] path = "SendPacket data" -> SendPacketDataPath
    [] path = "SendPacket other" -> SendPacketOtherPath
    [] path = "HandleAck no ack" -> HandleAckNoAckPath
    [] path = "HandleAck unknown" -> HandleAckUnknownPath
    [] path = "HandleAck found" -> HandleAckFoundPath
    [] path = "GetTimedOutPackets" -> GetTimedOutPacketsPath
    [] path = "ReceivePacket overflow" -> ReceivePacketOverflowPath
    [] path = "ReceivePacket duplicate" -> ReceivePacketDuplicatePath
    [] path = "ReceivePacket new" -> ReceivePacketNewPath
    [] path = "GetOrderedPackets" -> GetOrderedPacketsPath
    [] path = "CanSendPacket" -> CanSendPacketPath
    [] path = "SimulatePacketLoss" -> SimulatePacketLossPath
    [] OTHER -> <<>>

Running(t) == lockers[t].path # "idle" /\ lockers[t].at <= Len(PathSteps(lockers[t].path))
StepOf(t) == PathSteps(lockers[t].path)[lockers[t].at]

Without(held, m) == SelectSeq(held, LAMBDA x : x # m)

\* a goroutine enters one of the calls
LockCall(t, path) ==
  /\ lockers[t].path = "idle"
  /\ lockers' = [lockers EXCEPT ![t] = [path |-> path, at |-> 1, held |-> <<>>]]
  /\ UNCHANGED <<mu, LockFrame>>

\* sync.RWMutex.Lock, first half: the writer excludes other writers and
\* announces itself, which stops new readers
LockAnnounce(t) ==
  /\ Running(t)
  /\ StepOf(t).k = "Lock"
  /\ mu[StepOf(t).m].writer = "none"
  /\ mu' = [mu EXCEPT ![StepOf(t).m].writer = t]
  /\ UNCHANGED <<lockers, LockFrame>>

\* sync.RWMutex.Lock, second half: the writer goes on when the readers have left
LockEnter(t) ==
  /\ Running(t)
  /\ StepOf(t).k = "Lock"
  /\ mu[StepOf(t).m].writer = t
  /\ mu[StepOf(t).m].readers = {}
  /\ lockers' = [lockers EXCEPT ![t].at = @ + 1,
                                ![t].held = Append(@, StepOf(t).m)]
  /\ UNCHANGED <<mu, LockFrame>>

\* sync.RWMutex.RLock: a reader enters unless a writer has announced itself
LockRead(t) ==
  /\ Running(t)
  /\ StepOf(t).k = "RLock"
  /\ mu[StepOf(t).m].writer = "none"
  /\ mu' = [mu EXCEPT ![StepOf(t).m].readers = @ \cup {t}]
  /\ lockers' = [lockers EXCEPT ![t].at = @ + 1,
                                ![t].held = Append(@, StepOf(t).m)]
  /\ UNCHANGED LockFrame

\* Unlock and RUnlock
LockRelease(t) ==
  /\ Running(t)
  /\ StepOf(t).k \in {"Unlock", "RUnlock"}
  /\ mu' = [mu EXCEPT ![StepOf(t).m] =
              IF StepOf(t).k = "Unlock" THEN [@ EXCEPT !.writer = "none"]
              ELSE [@ EXCEPT !.readers = @ \ {t}]]
  /\ lockers' = [lockers EXCEPT ![t].at = @ + 1,
                                ![t].held = Without(@, StepOf(t).m)]
  /\ UNCHANGED LockFrame

\* the call returns
LockReturn(t) ==
  /\ lockers[t].path # "idle"
  /\ ~Running(t)
  /\ lockers' = [lockers EXCEPT ![t] = IdleLocker]
  /\ UNCHANGED <<mu, LockFrame>>

NextLocks ==
  \/ \E t \in Lockers, path \in Paths : LockCall(t, path)
  \/ \E t \in Lockers : LockAnnounce(t)
  \/ \E t \in Lockers : LockEnter(t)
  \/ \E t \in Lockers : LockRead(t)
  \/ \E t \in Lockers : LockRelease(t)
  \/ \E t \in Lockers : LockReturn(t)

SpecLocks == Init /\ [][NextLocks]_vars

\* ================================================== LockFreeQueue
QueueFrame == <<recvVars, sendVars, lfVars, now, dataSends, issued, seqVars, srvVars,
                pktVars, tblVars, lfAckVars, flowVars, winVars, lockVars, ret>>

\* atomic.CompareAndSwapPointer
SwapsAnyway(current, expected) == TRUE
SwapsPointer(current, expected) == current = expected

\* the items behind node n, following next
RECURSIVE ItemsAfter(_)
ItemsAfter(n) ==
  IF qnodes[n].next = Nil THEN <<>>
  ELSE <<qnodes[n].next>> \o ItemsAfter(qnodes[n].next)

\* Enqueue(data): newNode := &QueueNode{data: data}; the item is the node's number
EnqCall(t) ==
  /\ enqs[t].pc = "idle"
  /\ Len(qnodes) <= MaxQueueItems
  /\ qnodes' = Append(qnodes, [next |-> Nil, data |-> Len(qnodes) + 1, by |-> t])
  /\ enqs' = [enqs EXCEPT ![t] = [IdleEnqueuer EXCEPT !.pc = "load_tail",
                                                      !.node = Len(qnodes) + 1]]
  /\ UNCHANGED <<qhead, qtail, deqs, dequeued, QueueFrame>>

\* tail := atomic.LoadPointer(&q.tail)
EnqLoadTail(t) ==
  /\ enqs[t].pc = "load_tail"
  /\ enqs' = [enqs EXCEPT ![t].pc = "load_next", ![t].tail = qtail, ![t].next = Nil]
  /\ UNCHANGED <<qhead, qtail, qnodes, deqs, dequeued, QueueFrame>>

\* next := atomic.LoadPointer(&tailNode.next)
EnqLoadNext(t) ==
  /\ enqs[t].pc = "load_next"
  /\ enqs' = [enqs EXCEPT ![t].pc = "check", ![t].next = qnodes[enqs[t].tail].next]
  /\ UNCHANGED <<qhead, qtail, qnodes, deqs, dequeued, QueueFrame>>

\* if tail == atomic.LoadPointer(&q.tail): link when next is nil, help otherwise
EnqCheck(t) ==
  /\ enqs[t].pc = "check"
  /\ enqs' = [enqs EXCEPT ![t].pc =
                IF enqs[t].tail # qtail THEN "load_tail"
                ELSE IF enqs[t].next = Nil THEN "link" ELSE "help"]
  /\ UNCHANGED <<qhead, qtail, qnodes, deqs, dequeued, QueueFrame>>

\* atomic.CompareAndSwapPointer(&tailNode.next, nil, newNodePtr)
EnqLink(t) ==
  /\ enqs[t].pc = "link"
  /\ IF SwapsPointer(qnodes[enqs[t].tail].next, Nil)
     THEN /\ qnodes' = [qnodes EXCEPT ![enqs[t].tail].next = enqs[t].node]
          /\ enqs' = [enqs EXCEPT ![t].pc = "swing"]
     ELSE /\ enqs' = [enqs EXCEPT ![t].pc = "load_tail"]
          /\ UNCHANGED qnodes
  /\ UNCHANGED <<qhead, qtail, deqs, dequeued, QueueFrame>>

\* atomic.CompareAndSwapPointer(&q.tail, tail, newNodePtr); return true
EnqSwing(t) ==
  /\ enqs[t].pc = "swing"
  /\ qtail' = IF SwapsPointer(qtail, enqs[t].tail) THEN enqs[t].node ELSE qtail
  /\ enqs' = [enqs EXCEPT ![t] = IdleEnqueuer]
  /\ UNCHANGED <<qhead, qnodes, deqs, dequeued, QueueFrame>>

\* help advance tail: atomic.CompareAndSwapPointer(&q.tail, tail, next)
EnqHelp(t) ==
  /\ enqs[t].pc = "help"
  /\ qtail' = IF SwapsPointer(qtail, enqs[t].tail) THEN enqs[t].next ELSE qtail
  /\ enqs' = [enqs EXCEPT ![t].pc = "load_tail"]
  /\ UNCHANGED <<qhead, qnodes, deqs, dequeued, QueueFrame>>

\* Dequeue: head := atomic.LoadPointer(&q.head), on entry and on every retry
DeqLoadHead(t) ==
  /\ deqs[t].pc \in {"idle", "load_head"}
  /\ deqs' = [deqs EXCEPT ![t] = [IdleDequeuer EXCEPT !.pc = "load_tail", !.head = qhead]]
  /\ UNCHANGED <<qhead, qtail, qnodes, enqs, dequeued, QueueFrame>>

\* tail := atomic.LoadPointer(&q.tail)
DeqLoadTail(t) ==
  /\ deqs[t].pc = "load_tail"
  /\ deqs' = [deqs EXCEPT ![t].pc = "load_next", ![t].tail = qtail]
  /\ UNCHANGED <<qhead, qtail, qnodes, enqs, dequeued, QueueFrame>>

\* next := atomic.LoadPointer(&headNode.next); sawEmpty notes whether the
\* queue held no item at this load
DeqLoadNext(t) ==
  /\ deqs[t].pc = "load_next"
  /\ deqs' = [deqs EXCEPT ![t].pc = "check", ![t].next = qnodes[deqs[t].head].next,
                          ![t].sawEmpty = (ItemsAfter(qhead) = <<>>)]
  /\ UNCHANGED <<qhead, qtail, qnodes, enqs, dequeued, QueueFrame>>

\* if head == atomic.LoadPointer(&q.head): empty, help the tail, retry, or go on
DeqCheck(t) ==
  LET d == deqs[t] IN
  /\ d.pc = "check"
  /\ deqs' =
       IF d.head # qhead THEN [deqs EXCEPT ![t].pc = "load_head"]
       ELSE IF d.head = d.tail
            THEN IF d.next = Nil
                 THEN [deqs EXCEPT ![t].pc = "idle", ![t].result = Nil]
                 ELSE [deqs EXCEPT ![t].pc = "help"]
            ELSE IF d.next = Nil THEN [deqs EXCEPT ![t].pc = "load_head"]
                 ELSE [deqs EXCEPT ![t].pc = "swap"]
  /\ UNCHANGED <<qhead, qtail, qnodes, enqs, dequeued, QueueFrame>>

\* help advance tail: atomic.CompareAndSwapPointer(&q.tail, tail, next)
DeqHelp(t) ==
  /\ deqs[t].pc = "help"
  /\ qtail' = IF SwapsPointer(qtail, deqs[t].tail) THEN deqs[t].next ELSE qtail
  /\ deqs' = [deqs EXCEPT ![t].pc = "load_head"]
  /\ UNCHANGED <<qhead, qnodes, enqs, dequeued, QueueFrame>>

\* data := (*QueueNode)(next).data, which is never written after NewNode;
\* atomic.CompareAndSwapPointer(&q.head, head, next); return data
DeqSwap(t) ==
  /\ deqs[t].pc = "swap"
  /\ IF SwapsPointer(qhead, deqs[t].head)
     THEN /\ qhead' = deqs[t].next
          /\ dequeued' = Append(dequeued, qnodes[deqs[t].next].data)
          /\ deqs' = [deqs EXCEPT ![t].pc = "idle",
                                  ![t].result = qnodes[deqs[t].next].data]
     ELSE /\ deqs' = [deqs EXCEPT ![t].pc = "load_head"]
          /\ UNCHANGED <<qhead, dequeued>>
  /\ UNCHANGED <<qtail, qnodes, enqs, QueueFrame>>

NextQueue ==
  \/ \E t \in Enqueuers : EnqCall(t)
  \/ \E t \in Enqueuers : EnqLoadTail(t)
  \/ \E t \in Enqueuers : EnqLoadNext(t)
  \/ \E t \in Enqueuers : EnqCheck(t)
  \/ \E t \in Enqueuers : EnqLink(t)
  \/ \E t \in Enqueuers : EnqSwing(t)
  \/ \E t \in Enqueuers : EnqHelp(t)
  \/ \E t \in Dequeuers : DeqLoadHead(t)
  \/ \E t \in Dequeuers : DeqLoadTail(t)
  \/ \E t \in Dequeuers : DeqLoadNext(t)
  \/ \E t \in Dequeuers : DeqCheck(t)
  \/ \E t \in Dequeuers : DeqHelp(t)
  \/ \E t \in Dequeuers : DeqSwap(t)

SpecQueue == Init /\ [][NextQueue]_vars

\* ================================================ claims, buffers and scans
\* C21: when the ordering buffer of the lock-guarded engine holds the
\* configured maximum, ReceivePacket returns the overflow error and leaves
\* the ordering buffer, the seen set and next-expected as they were; the
\* rejected sequence number is therefore not in the seen set on account of
\* that call, and a later ReceivePacket of a sequence number outside the seen
\* set that finds space passes the duplicate test, is marked and is buffered.
C21_Overflow ==
  [][\A t \in Receivers :
       /\ (RecvCheckSize(t) /\ rsize[t] >= maxBufferSize) =>
            /\ rret'[t] = "overflow"
            /\ rpc'[t] = "idle"
            /\ UNCHANGED <<orderingBuffer, receivedSeqs, nextExpectedSeq>>
       /\ (RecvCheckSize(t) /\ rsize[t] < maxBufferSize) => rpc'[t] = "dup_check"
       /\ (RecvCheckDup(t) /\ rpkt[t] \notin receivedSeqs) => rpc'[t] = "mark"
       /\ RecvMark(t) => rpc'[t] = "insert"
       /\ RecvInsert(t) => (rret'[t] = "ok" /\ rpkt[t] \in orderingBuffer')]_vars

\* One caller was turned away with the overflow error for a sequence number
\* that the other caller has since delivered to the buffer.
C21_Witness ==
  /\ rpc = [t \in Receivers |-> "idle"]
  /\ rret["r1"] = "overflow"
  /\ rret["r2"] = "ok"
  /\ rpkt["r1"] = rpkt["r2"]
  /\ rpkt["r2"] \in orderingBuffer

\* C22 (as stated): in every reachable state, concurrent ReceivePacket calls
\* included, the number of buffered, not yet released packets of the
\* lock-guarded engine is at most the configured maximum buffer size.
C22_Original ==
  Cardinality(orderingBuffer) <= maxBufferSize

\* C23 (as stated): in the lock-guarded engine ReceivePacket for a sequence
\* number that was already accepted returns no error and changes no state,
\* whatever the state of the engine, a full ordering buffer included.
C23_Original ==
  [][\A t \in Receivers :
       (rpkt[t] \in receivedSeqs /\ (RecvCheckSize(t) \/ RecvCheckDup(t))) =>
         /\ rret'[t] # "overflow"
         /\ UNCHANGED <<receivedSeqs, orderingBuffer, nextExpectedSeq>>]_vars

\* C24 (as stated): GetTimedOutPackets returns exactly the packets of the
\* tracked entries whose age, scan time minus send time, is strictly greater
\* than the retransmission timeout: an acknowledged entry, or one whose age
\* does not exceed the timeout, is never returned, and every tracked entry
\* older than the timeout is.  Here for the scan of the lock-free engine,
\* entry by entry.
C24_Original ==
  [][ScanVisit =>
       ((timedOut' # timedOut) <=>
          /\ InTable(scanValue)
          /\ scanNow - heap[scanValue].SendTime > scanTimeout)]_vars

\* C25: in the lock-free engine the counters sent, received, lost and
\* retransmitted never decrease; every SendPacket that returns true for a
\* DATA packet (its Insert found the bucket empty) adds exactly one to sent,
\* every ReceivePacket that returns true for a DATA packet adds exactly one
\* to received, and no other step changes either counter, whatever the
\* interleaving of senders, receivers and the scan: once the calls have
\* completed each counter equals the number of such calls.
C25_Counters ==
  [][/\ packetsSent' >= packetsSent
     /\ packetsRecv' >= packetsRecv
     /\ packetsLost' >= packetsLost
     /\ packetsRetr' >= packetsRetr
     /\ \A type \in PacketTypes, seq \in LFSeqs :
          /\ LFSendPacket(type, seq) =>
               packetsSent' = packetsSent +
                 (IF type = DATA_PACKET /\ unackedTable[Hash(seq)] = Nil THEN 1 ELSE 0)
          /\ LFReceivePacket(type, seq) =>
               packetsRecv' = packetsRecv +
                 (IF type = DATA_PACKET /\ ret'.val THEN 1 ELSE 0)
     /\ packetsSent' # packetsSent =>
          \E seq \in LFSeqs : LFSendPacket(DATA_PACKET, seq)
     /\ packetsRecv' # packetsRecv =>
          \E seq \in LFSeqs : LFReceivePacket(DATA_PACKET, seq)]_vars

\* Two DATA packets were sent and two received, and a scan has reported a
\* timed-out packet.
C25_Witness ==
  /\ packetsSent = 2
  /\ packetsRecv = 2
  /\ packetsRetr >= 1
  /\ packetsLost >= 1
  /\ scanPc = "idle"

\* C26 (as stated): in the lock-free engine SendPacket for a DATA packet
\* fails (returns false, nothing recorded) only when an entry with the same
\* sequence number is already tracked, so that two DATA packets in flight
\* with different sequence numbers are both tracked.
C26_Original ==
  [][\A seq \in SendSeqs :
       (BothSendPacket(DATA_PACKET, seq) /\ packetsSent' = packetsSent)
         => LFTracked(seq)]_vars

\* C27 (as stated): in the lock-free engine HandleAck returns true and
\* removes an entry exactly when an entry of sequence number ack_number - 1
\* is tracked, and the entry it removes and takes its RTT sample from is
\* that one, never the entry of another sequence number.
C27_Original ==
  [][\A seq \in SendSeqs :
       BothHandleAck(Succ32(seq), TRUE) =>
         /\ (ackPc' = "rtt") <=> LFTracked(seq)
         /\ (ackPc' = "rtt") => heap[ackEntry'].SeqNum = seq]_vars

\* ===================================================== claims, the server
\* C28 (as stated): once Stop has been called on the server, the reliability
\* worker and the stats worker leave their loops and the event loop's Run
\* returns, however Stop interleaves with Start and Run; an engine call in
\* flight when Stop is issued runs to completion.
C28_Original ==
  /\ (stopPc = "done") ~> /\ relPc \in {"none", "done"}
                          /\ statsPc \in {"none", "done"}
                          /\ startPc \in {"returned", "failed"}
  /\ (relPc = "scan") ~> (relPc # "scan")

\* ================================================ claims, packets
\* C29: DeserializePacket reports the first failing check in the order too
\* short, unsupported version, length mismatch, checksum mismatch: bytes of
\* header size or more whose version field is wrong and whose declared
\* length differs from their count are rejected as an unsupported version.
C29_Original ==
  (/\ perr # "none"
   /\ Len(wire) >= PACKET_HEADER_SIZE
   /\ (wire[1] \div 16) % 16 # PROTOCOL_VERSION
   /\ ntohs(LoadUint16(SubSeq(wire, 3, 4))) # Len(wire))
    => perr = "unsupported protocol version"

\* C30: DeserializePacket(Serialize(NewPacket(type, flags, seq, ack,
\* payload))) succeeds and gives back version, type, flags, length, sequence
\* number, acknowledgment number, checksum and payload; the payload is the
\* input cut to MAX_PAYLOAD_SIZE bytes and the length is the header size
\* plus the payload length, the number of serialized bytes.
C30_RoundTrip ==
  (perr # "none" /\ orig.changes = {} /\ orig.packet # NoPacket) =>
    /\ perr = "nil"
    /\ parsed.Version = PROTOCOL_VERSION
    /\ parsed.Type = orig.input.Type
    /\ parsed.Flags = orig.input.Flags
    /\ parsed.SeqNum = orig.input.SeqNum
    /\ parsed.AckNum = orig.input.AckNum
    /\ parsed.Checksum = orig.packet.Checksum
    /\ parsed.Payload = IF Len(orig.input.Payload) > MAX_PAYLOAD_SIZE
                          THEN SubSeq(orig.input.Payload, 1, MAX_PAYLOAD_SIZE)
                          ELSE orig.input.Payload
    /\ parsed.Length = PACKET_HEADER_SIZE + Len(parsed.Payload)
    /\ parsed.Length = Len(wire)
    /\ parsed.Checksum = calculateChecksum(SubSeq(wire, 1, 12), parsed.Payload)

C30_Witness ==
  /\ perr = "nil"
  /\ orig.changes = {}
  /\ Len(orig.input.Payload) > MAX_PAYLOAD_SIZE
  /\ parsed.Type = RST_PACKET
  /\ parsed.Flags = 255
  /\ parsed.SeqNum = U32(65535, 65535)
  /\ Len(parsed.Payload) = MAX_PAYLOAD_SIZE

\* C31 (as stated): complementing one byte of a serialized packet, in the
\* header or the payload but not in the length field, makes DeserializePacket
\* fail with a checksum mismatch.
C31_Original ==
  (/\ perr # "none"
   /\ orig.changes = {"flip"}
   /\ orig.flipped \notin {3, 4})
    => perr = "checksum mismatch"

\* ================================================ claims, remaining
\* C32 (as stated): a LockFreeHashTable is only ever constructed with a size
\* that is a power of two and not zero, any other size failing in
\* NewLockFreeHashTable; and a constructed table serves Insert, Remove and
\* ForEach for every key without an index out of range.
C32_Original ==
  /\ ht.state \in {"built", "crashed"} =>
       ht.size # 0 /\ \E k \in 0 .. MaxTableSize : ht.size = 2 ^ k
  /\ ht.state # "crashed"

\* C33 (as stated): a DATA packet with sequence number s is acknowledged with
\* ack number s + 1 modulo 2^32 (0 at the wrap point), and HandleAck for that
\* number, s having been sent and not yet acknowledged, removes the tracked
\* entry of s and no entry of another sequence number, in both engines.
C33_Original ==
  [][\A seq \in SendSeqs :
       (Tracked(seq) /\ BothHandleAck(AckNumOf(seq), TRUE)) =>
         /\ unackedPackets' = [unackedPackets EXCEPT ![seq] = NoEntry]
         /\ \A other \in SendSeqs \ {seq} : LFTracked(other) => LFTracked(other)']_vars

\* C34 (as stated): in the lock-guarded engine every packet held in the
\* ordering buffer has a sequence number at or after next-expected, in every
\* reachable state.
C34_Original == \A q \in orderingBuffer : q >= nextExpectedSeq

\* A caller of the lock-free HandleAck that has taken an entry out of the
\* table and has not returned yet.
Holder(t) == ackers[t].pc \in {"sample", "rtt_load", "rtt_cas", "store", "win_load", "win_cas"}

\* C35: of two concurrent HandleAck calls with one ack number against one
\* tracked entry, exactly one removes the entry and applies the RTT sample
\* and the congestion-window update, and the other changes neither tracker
\* nor RTT nor congestion state.  Lock-free engine: an entry is taken out of
\* its bucket by a compare-and-swap that found it there, so that no two
\* callers hold one entry; a caller that returns false, and every load or
\* failed swap, leaves table, RTT estimate, timeout and window alone; the
\* holder's swaps apply its sample and one window growth.  Lock-guarded
\* engine: the call that finds the entry removes it, adds one RTT sample and
\* grows the window once; a call that does not find it changes nothing.
C35_OneRemoves ==
  /\ [](\A t, u \in Ackers :
          (t # u /\ Holder(t) /\ Holder(u)) => ackers[t].cur # ackers[u].cur)
  /\ [][\A t \in Ackers :
          /\ (ackers[t].pc = "cas" /\ ackers'[t].pc = "sample") =>
               /\ unackedTable[Hash(Pred32(ackers[t].ack))] = ackers[t].cur
               /\ unackedTable'[Hash(Pred32(ackers[t].ack))] = Nil
          /\ (ackers[t].pc \in {"idle", "load", "cas"} /\ ackers'[t] # ackers[t]
                 /\ ackers'[t].pc # "sample") =>
               UNCHANGED <<unackedTable, heap, congWindow, rttEstimate, timeoutBase>>
          /\ (ackers[t].pc = "rtt_cas" /\ ackers'[t].pc = "store") =>
               rttEstimate' = SmoothedRTT(rttEstimate, ackers[t].sample)
          /\ (ackers[t].pc = "win_cas" /\ ackers'[t].result = "true") =>
               congWindow' = GrownWindow(congWindow, LFWindowSize)]_vars
  /\ [][(rttEstimate' # rttEstimate \/ congWindow' # congWindow) =>
          \E t \in Ackers : Holder(t) /\ ackers'[t] # ackers[t]]_vars
  /\ [][\A t \in Ackers, seq \in SendSeqs :
          AckCall(t, AckNumOf(seq), TRUE) =>
            IF Tracked(seq)
              THEN /\ ~Tracked(seq)'
                   /\ \A other \in Seq32 \ {seq} : Tracked(other)' = Tracked(other)
                   /\ Len(rttSamples') = Len(rttSamples) + 1
                   /\ congestionWindow' = AckedWindow(congestionWindow, ssthresh)
              ELSE UNCHANGED <<unackedPackets, rttSamples, averageRTT,
                               retransmissionTimeout, congestionWindow, ssthresh>>]_vars

\* One DATA packet was sent and two callers have handled its
\* acknowledgment: one returned true, the other false, and each engine has
\* one RTT sample and one window growth.
C35_Witness ==
  /\ packetsSent = 1 /\ dataSends = 1
  /\ ackers["a1"].ack = ackers["a2"].ack
  /\ ackers["a1"].result = "true"
  /\ ackers["a2"].result = "false"
  /\ congWindow = GrownWindow(LFInitCongWindow, LFWindowSize)
  /\ Len(rttSamples) = 1
  /\ congestionWindow = AckedWindow(InitCongestionWindow, InitSsthresh)
  /\ TrackedSeqs = {}
  /\ \A b \in Buckets : unackedTable[b] = Nil

\* C37 (as stated): in the lock-free engine, once the concurrent HandleAck
\* calls have completed, the stored retransmission timeout is 4 times the
\* stored RTT estimate clamped to [100 ms, 5 s].
C37_Original ==
  (/\ \A t \in Ackers : ackers[t].pc = "idle"
   /\ \E t \in Ackers : ackers[t].result = "true")
    => timeoutBase = TimeoutFor(rttEstimate)

\* C36 (as stated): when every sender calls SendPacket only after its own
\* CanSendPacket call returned true, the number of unacknowledged entries of
\* the lock-guarded engine never exceeds the window size.
C36_Original == NumUnacked <= windowSize

\* C40: in every reachable state both congestion windows are at least 1 and
\* bounded above: the locked engine's window never exceeds the initial
\* slow-start threshold, which no step increases, and the lock-free engine's
\* window never exceeds the window size, under any interleaving of
\* acknowledgments and loss events.
C40_WindowBounds ==
  /\ [](/\ congestionWindow >= 1
        /\ congestionWindow <= InitSsthresh
        /\ congWindow >= 1
        /\ congWindow <= LFWindowSize)
  /\ [][ssthresh' <= ssthresh]_vars

\* the locked window has grown to the initial threshold, the lock-free window
\* to half the window size, while one caller's loss update and another's
\* acknowledgment update are both between their load and their compare-and-swap
C40_Witness ==
  /\ congestionWindow = InitSsthresh
  /\ ssthresh = InitSsthresh
  /\ congWindow = LFWindowSize \div 2
  /\ updaters["u1"].pc = "loaded" /\ ~updaters["u1"].success
  /\ updaters["u2"].pc = "loaded" /\ updaters["u2"].success

\* the goroutines a goroutine waits for at its current mutex operation
WaitsFor(t) ==
  IF ~Running(t) THEN {}
  ELSE LET st == StepOf(t)
           w == mu[st.m].writer
       IN CASE st.k = "Lock" -> IF w = t THEN mu[st.m].readers
                                ELSE IF w = "none" THEN {} ELSE {w}
            [] st.k = "RLock" -> IF w = "none" THEN {} ELSE {w}
            [] OTHER -> {}
WaitsForAll(S) == UNION {WaitsFor(u) : u \in S}
WaitChain(t) ==
  LET r1 == WaitsFor(t)
      r2 == r1 \cup WaitsForAll(r1)
  IN r2 \cup WaitsForAll(r2)

\* the order in which nested mutexes are taken
LockRank(m) ==
  CASE m = "unackedMutex" -> 1
    [] m = "rttMutex" -> 2
    [] m = "congestionMutex" -> 3
    [] OTHER -> 0

\* C39: no interleaving of concurrent calls to the lock-guarded engine's
\* operations deadlocks: no goroutine waits, directly or through others, for
\* itself; a mutex taken while another is held always follows it in one
\* fixed order (unackedMutex, then rttMutex or congestionMutex); a call holds
\* no mutex when it returns.
C39_NoDeadlock ==
  \A t \in Lockers :
    /\ t \notin WaitChain(t)
    /\ \A i, j \in 1..Len(lockers[t].held) :
         i < j => /\ LockRank(lockers[t].held[i]) # 0
                  /\ LockRank(lockers[t].held[i]) < LockRank(lockers[t].held[j])
    /\ ~Running(t) => lockers[t].held = <<>>

\* HandleAck holds unackedMutex and waits for congestionMutex, which
\* SimulatePacketLoss holds; a third goroutine waits for unackedMutex
C39_Witness ==
  /\ lockers["g1"].path = "HandleAck found"
  /\ lockers["g1"].held = <<"unackedMutex">>
  /\ WaitsFor("g1") = {"g2"}
  /\ lockers["g2"].path = "SimulatePacketLoss"
  /\ lockers["g2"].held = <<"congestionMutex">>
  /\ lockers["g3"].path = "CanSendPacket"
  /\ WaitsFor("g3") = {"g1"}

\* the items whose Enqueue has returned
EnqueueReturned ==
  {n \in 2..Len(qnodes) : enqs[qnodes[n].by].node # n}

\* C38: under any interleaving of concurrent Enqueue and Dequeue calls, the
\* items linked into the queue are exactly the items dequeued so far followed
\* by the items still queued, in that order: no item is dequeued twice, none is
\* lost, and the items of one caller leave in the order that caller enqueued
\* them; an item whose Enqueue has returned is in the queue or was dequeued;
\* Dequeue returns nil only when it read an empty queue.
C38_QueueOrder ==
  /\ ItemsAfter(1) = dequeued \o ItemsAfter(qhead)
  /\ \A i, j \in 1..Len(dequeued) :
       i < j => /\ dequeued[i] # dequeued[j]
                /\ qnodes[dequeued[i]].by = qnodes[dequeued[j]].by
                     => dequeued[i] < dequeued[j]
  /\ EnqueueReturned \subseteq Range(ItemsAfter(1))
  /\ \A t \in Dequeuers :
       (deqs[t].pc = "idle" /\ deqs[t].result = Nil) => deqs[t].sawEmpty

\* one caller enqueued two items while the dequeuers were running; one
\* dequeuer got the first, the other got the second and then nil
C38_Witness ==
  /\ Len(qnodes) = 3
  /\ qnodes[2].by = "e1" /\ qnodes[3].by = "e1"
  /\ dequeued = <<2, 3>>
  /\ deqs["d1"].pc = "idle" /\ deqs["d1"].result = 2
  /\ deqs["d2"].pc = "idle" /\ deqs["d2"].result = Nil /\ deqs["d2"].sawEmpty
  /\ ItemsAfter(qhead) = <<>>

====
